---------------------------- MODULE Spec2Model ----------------------------
(***************************************************************************)
(* Gateway-side LoRa session manager (LoRaManager, src/src/lora_manager.cpp) *)
(* as a state machine: registry, discovery list, pairing session, the      *)
(* persisted registry file, the serial receive queue and the millis()      *)
(* clock.  One action per public operation and per packet handler;         *)
(* update() is split at its three positions (entry, one dispatched packet, *)
(* the timeout checks) because its local `now` is captured at entry.       *)
(***************************************************************************)
EXTENDS Integers, Sequences, FiniteSets, TLC

(***************************************************************************)
(* Bounds of the model.                                                    *)
(***************************************************************************)
\* Highest allocatable Node ID of the scaled runs.  The firmware scans
\* 1..254 (id < 255); a scaled run scans 1..MaxNodeID and reserves
\* MaxNodeID + 1 as the broadcast ID, so that the ID space can run out
\* with a handful of nodes.
MaxNodeID == 2
\* The millis() clock stops advancing at MaxTime.
MaxTime == 10000
\* Packets that may wait decoded on the serial link at once.
MaxRx == 1

(***************************************************************************)
(* Program constants.                                                      *)
(***************************************************************************)
PKG_HELLO == 1
PKG_WELCOME == 2
PKG_ACK == 3
PKG_DATA == 4
PKG_CMD == 5
PKG_CONFIG == 6
PKG_HEARTBEAT == 7
\* sizeof the packed structs: DataPacket_t is six bytes and a uint32_t.
SIZEOF_HELLO == 9
SIZEOF_ACK == 4
SIZEOF_DATA == 10
SIZEOF_HEARTBEAT == 6
ERR_NONE == 0
ERR_INVALID_CMD == 1
DEV_TYPE_RELAY_2CH == 1
DEV_TYPE_RELAY_4CH == 2
MAC_ADDR_LEN == 6
MAC_STRING_LEN == 17
LORA_PAIRING_TIMEOUT == 10000
LORA_SCAN_DURATION == 60000
MAX_DISCOVERED_NODES == 16
NODE_OFFLINE_THRESHOLD == 120000
NODE_CHECK_INTERVAL == 5000
HELLO_RSSI == -50
HELLO_SNR == 10
FW_VERSION == 16
RESERVED_ID == 0
LAST_NODE_ID == 254
MAX_NODES == 32
CMD_RELAY_SET == 1
CMD_RELAY_TOGGLE == 2
CMD_RESET == 3
CMD_REQUEST_STATUS == 5

NODE_ID_UNASSIGNED == 0
NVM_MAGIC_VALUE == 165
SIZEOF_WELCOME == 9
SIZEOF_CMD == 5

STATE_DISCOVERY == "STATE_DISCOVERY"
STATE_NORMAL == "STATE_NORMAL"

PAIR_IDLE == "PAIR_IDLE"
PAIR_WAITING_ACK == "PAIR_WAITING_ACK"
PAIR_SUCCESS == "PAIR_SUCCESS"
PAIR_TIMEOUT == "PAIR_TIMEOUT"
PAIR_FAILED == "PAIR_FAILED"

\* Elapsed time `later - earlier` of two millis() readings.  Both are
\* uint32_t; within MaxTime the clock is far from wrapping at 2^32 and every
\* reading subtracted from is the later one, where the unsigned difference
\* is the plain difference.
Sub32(later, earlier) == later - earlier

(***************************************************************************)
(* Hardware addresses: 6 raw bytes.  MacOf(1) is AA:BB:CC:11:22:33.        *)
(***************************************************************************)
MacOf(i) == <<170, 187, 204, 17, 34, 50 + i>>
\* The hardware addresses the environment presents: one more than there are
\* Node IDs at MaxNodeID = 2, so that the ID space can run out.
MACS == { MacOf(1), MacOf(2), MacOf(3) }
ZeroMAC == [i \in 1..MAC_ADDR_LEN |-> 0]

\* One digit of snprintf's %X.
HexDigit(n) == <<"0","1","2","3","4","5","6","7","8","9","A","B","C","D","E","F">>[n + 1]

\* %02X with the two digits in the wrong order.
HexByteSwapped(b) == <<HexDigit(b % 16), HexDigit(b \div 16)>>

\* snprintf("%02X") of one byte, as two characters.
HexByte(b) == <<HexDigit(b \div 16), HexDigit(b % 16)>>

\* LoRaManager::macToString: "%02X:%02X:%02X:%02X:%02X:%02X".
macToString(mac) ==
    HexByte(mac[1]) \o <<":">> \o HexByte(mac[2]) \o <<":">> \o
    HexByte(mac[3]) \o <<":">> \o HexByte(mac[4]) \o <<":">> \o
    HexByte(mac[5]) \o <<":">> \o HexByte(mac[6])

\* snprintf(node.name, "Node_%d", id)
NodeName(id) == <<"Node_", id>>

(***************************************************************************)
(* The Node firmware (node_firmware.ino): what a Node keeps.               *)
(***************************************************************************)
\* The Nodes within radio range of the Gateway.
NumNodes == 2
NodeIdx == 1..NumNodes

\* The user-data flash of a Node that was never configured.
BlankNvm == [magic |-> 0, nodeID |-> 0]

\* loadConfig: the Node ID read from flash, unassigned without the magic byte.
LoadedID(nvm) ==
    IF nvm.magic /= NVM_MAGIC_VALUE THEN NODE_ID_UNASSIGNED ELSE nvm.nodeID

\* The globals of the Node firmware once setup() has run on flash nvm:
\* Discovery without an ID, Normal with one; relays off, nothing received.
NodeAfterSetup(nvm) ==
    [deviceState |-> IF LoadedID(nvm) = NODE_ID_UNASSIGNED
                       THEN STATE_DISCOVERY ELSE STATE_NORMAL,
     nodeID |-> LoadedID(nvm),
     nvm |-> nvm,
     rxDone |-> FALSE,
     rxBuffer |-> <<>>]

(***************************************************************************)
(* State.                                                                  *)
(***************************************************************************)
VARIABLES
    lastID,             \* the highest Node ID _getNextFreeID hands out; never changes
    nodeFw,             \* the Nodes in radio range: Node i, with hardware address
                        \* MacOf(i), is nodeFw[i]
    now,                \* millis()
    pc,                 \* position of the main loop in update(): "idle" | "rx";
                        \* "setup" between begin() and setup()'s loadNodes
    updNow,             \* update()'s local `now` while pc = "rx"
    rxQueue,            \* decoded receive notifications waiting on the serial link
    scanMode, scanStartTime, scanDuration, discoveredNodes,
    pairingState, pairingMAC, pairingNodeID, pairingStartTime,
    registeredNodes,
    lastNodeCheck,
    nodesFile,          \* /nodes.json: [exists, nodes]
    out                 \* what the last operation returned, transmitted and called back

vars == <<lastID, nodeFw, now, pc, updNow, rxQueue, scanMode, scanStartTime, scanDuration,
          discoveredNodes, pairingState, pairingMAC, pairingNodeID,
          pairingStartTime, registeredNodes, lastNodeCheck, nodesFile, out>>

scanVars == <<scanMode, scanStartTime, scanDuration, discoveredNodes>>
pairVars == <<pairingState, pairingMAC, pairingNodeID, pairingStartTime>>
updVars == <<pc, updNow>>

\* NODE_ID_BROADCAST, the ID past the last one _getNextFreeID may return:
\* 255 when lastID is the firmware's 254.
BROADCAST_ID == lastID + 1

\* The record an operation leaves in `out`.
Out(op, arg, ret, cb, tx, save) ==
    [op |-> op, arg |-> arg, ret |-> ret, cb |-> cb, tx |-> tx, save |-> save]

\* Steps of the environment and update()'s entry return and call nothing.
Quiet == Out("env", 0, TRUE, <<>>, <<>>, <<>>)

PairingCb(id, success) == [cb |-> "pairing", nodeID |-> id, success |-> success]

\* LoRaManager::LoRaManager, then setup(): begin() and loadNodes() with no
\* /nodes.json on flash.  top: the highest Node ID the build hands out.
\* The Nodes are fresh from the factory and powered.
Constructed(top) ==
    /\ lastID = top
    /\ nodeFw = [n \in NodeIdx |-> NodeAfterSetup(BlankNvm)]
    /\ now = 0
    /\ pc = "idle"
    /\ updNow = 0
    /\ rxQueue = <<>>
    /\ scanMode = FALSE
    /\ scanStartTime = 0
    /\ scanDuration = LORA_SCAN_DURATION
    /\ discoveredNodes = <<>>
    /\ pairingState = PAIR_IDLE
    /\ pairingMAC = ZeroMAC
    /\ pairingNodeID = 0
    /\ pairingStartTime = 0
    /\ registeredNodes = <<>>
    /\ lastNodeCheck = 0
    /\ nodesFile = [exists |-> FALSE, nodes |-> <<>>]
    /\ out = Out("init", 0, TRUE, <<>>, <<>>, <<>>)

\* The gateway as constructed, its ID space scaled to 1..MaxNodeID.
Init == Constructed(MaxNodeID)

(***************************************************************************)
(* Registry helpers.                                                       *)
(***************************************************************************)
\* _isNodeRegistered with the validity test inverted.
IsNodeRegisteredInvalidOnly(mac) ==
    \E i \in 1..Len(registeredNodes) :
        ~registeredNodes[i].valid /\ registeredNodes[i].macAddr = mac

\* LoRaManager::_isNodeRegistered
_isNodeRegistered(mac) ==
    \E i \in 1..Len(registeredNodes) :
        registeredNodes[i].valid /\ registeredNodes[i].macAddr = mac

\* used[] filled by a loop that stops one node short.
UsedIDsButLast ==
    {RESERVED_ID, BROADCAST_ID} \cup
    { registeredNodes[i].nodeID :
        i \in { j \in 1..(Len(registeredNodes) - 1) : registeredNodes[j].valid } }

\* The used[] array of _getNextFreeID: 0 and the broadcast ID are reserved,
\* every valid node marks its own ID.
UsedIDs ==
    {RESERVED_ID, BROADCAST_ID} \cup
    { registeredNodes[i].nodeID :
        i \in { j \in 1..Len(registeredNodes) : registeredNodes[j].valid } }

\* The scan loop run downwards from 254.
RECURSIVE ScanFreeIDDown(_)
ScanFreeIDDown(id) ==
    IF id >= BROADCAST_ID THEN 0
    ELSE IF (BROADCAST_ID - id) \notin UsedIDs THEN BROADCAST_ID - id
    ELSE ScanFreeIDDown(id + 1)

\* The scan loop of _getNextFreeID: for (id = 1; id < 255; id++).
RECURSIVE ScanFreeID(_)
ScanFreeID(id) ==
    IF id >= BROADCAST_ID THEN 0
    ELSE IF id \notin UsedIDs THEN id
    ELSE ScanFreeID(id + 1)

\* LoRaManager::_getNextFreeID
_getNextFreeID == ScanFreeID(1)

\* LoRaManager::saveNodes: the document written when the file opens.
RECURSIVE NodesDoc(_)
NodesDoc(nodes) ==
    IF nodes = <<>> THEN <<>>
    ELSE LET n == Head(nodes) IN
         (IF n.valid
            THEN << [id |-> n.nodeID, mac |-> macToString(n.macAddr),
                     type |-> n.deviceType, name |-> n.name] >>
            ELSE <<>>) \o NodesDoc(Tail(nodes))

\* LoRaManager::saveNodes on registry `nodes`, the file being `file` before;
\* fsOk is whether LittleFS.open(NODES_FILE_PATH, "w") succeeds.
saveNodes(file, nodes, fsOk) ==
    IF fsOk THEN [exists |-> TRUE, nodes |-> NodesDoc(nodes)] ELSE file


(***************************************************************************)
(* Environment: the clock and the radio.                                   *)
(***************************************************************************)
\* The instants at which the program is seen to read millis(): either side
\* of the pairing deadline of a session started at 0 or at the deadline.
Instants == { t \in {0, LORA_PAIRING_TIMEOUT - 1, LORA_PAIRING_TIMEOUT,
                     2 * LORA_PAIRING_TIMEOUT - 1, 2 * LORA_PAIRING_TIMEOUT} :
                t <= MaxTime }

\* millis() advances to a later instant.  update() runs to completion
\* within one reading of this clock, so its local `now` is millis() throughout.
Tick(t) ==
    /\ pc = "idle"
    /\ t > now
    /\ now' = t
    /\ out' = Quiet
    /\ UNCHANGED <<lastID, nodeFw, updVars, rxQueue, scanVars, pairVars, registeredNodes,
                   lastNodeCheck, nodesFile>>

\* AckPacket_t and HelloPacket_t as the modem reports them (+EVT:RXP2P).
AckPackets ==
    { p \in [type : {PKG_ACK}, nodeID : {1}, ackType : {PKG_WELCOME, PKG_CMD},
              status : {ERR_NONE, ERR_INVALID_CMD}] :
        p.ackType = PKG_CMD => p.status = ERR_NONE }
HelloPackets ==
    [type : {PKG_HELLO}, macAddr : MACS, deviceType : {DEV_TYPE_RELAY_4CH},
     fwVersion : {FW_VERSION}]

\* DataPacket_t and HeartbeatPacket_t from the nodes holding the IDs.
DataPackets ==
    [type : {PKG_DATA}, nodeID : 1..MaxNodeID, relayStatus : {3}, rssi : {-60},
     snr : {7}, batteryLevel : {255}, uptime : {42}]
HeartbeatPackets ==
    [type : {PKG_HEARTBEAT}, nodeID : 1..MaxNodeID, relayStatus : {2},
     errorFlags : {0}, seqNum : {9}]

\* A receive notification reaches the serial link, behind those already
\* waiting there; the link holds at most cap of them.
Arrive(pkt, cap) ==
    /\ Len(rxQueue) < cap
    /\ rxQueue' = Append(rxQueue, pkt)
    /\ out' = Quiet
    /\ UNCHANGED <<lastID, nodeFw, now, updVars, scanVars, pairVars, registeredNodes,
                   lastNodeCheck, nodesFile>>

\* A receive notification reaches the serial link.
Receive(pkt) == Arrive(pkt, MaxRx)

(***************************************************************************)
(* Pairing.                                                                *)
(***************************************************************************)
\* The guard testing for a terminal state instead of a non-idle one.
PairingBusyTerminalOnly == pairingState \notin {PAIR_IDLE, PAIR_WAITING_ACK}

\* startPairing's first guard: if (_pairingState != PAIR_IDLE) return false
PairingBusy == pairingState /= PAIR_IDLE

\* _sendWelcome with assignedID and reserved swapped.
SendWelcomeSwapped(mac, nodeID) ==
    [type |-> PKG_WELCOME, targetMac |-> mac, assignedID |-> 0, reserved |-> nodeID]

\* LoRaManager::_sendWelcome: the packet handed to _sendPacket.
_sendWelcome(mac, nodeID) ==
    [type |-> PKG_WELCOME, targetMac |-> mac, assignedID |-> nodeID, reserved |-> 0]

\* What the modem may answer to AT+PSEND while _sendPacket waits: a line
\* with OK, a line with ERROR, or nothing within LORA_TX_TIMEOUT.
AT_OK == "OK"
AT_ERROR == "ERROR"
NO_ANSWER == "none"
ModemAnswers == {AT_OK, AT_ERROR, NO_ANSWER}

\* The AT commands _sendPacket writes to the modem.
AT_PRECV_OFF == "AT+PRECV=0"
AT_PSEND == "AT+PSEND"
AT_PRECV_CONTINUOUS == "AT+PRECV=65534"

\* _sendPacket resuming receive only after a send the modem accepted.
CommandsAfterSendOnOk(answer) ==
    IF answer = AT_OK THEN <<AT_PRECV_CONTINUOUS>> ELSE <<>>

\* What _sendPacket writes once its wait for the answer is over.
CommandsAfterSend(answer) == <<AT_PRECV_CONTINUOUS>>

\* _sendPacket leaving the unread input where it is.
SerialKept(queue) == queue

\* The serial link once _sendPacket has run: `while (_serial->available())
\* _serial->read()` before AT+PRECV=0, and every line that is not the
\* answer read and dropped by the two waits.
SerialAfterSend(queue) == <<>>

\* One transmit attempt of _sendPacket on an initialised gateway: the packet,
\* the modem's answer, the result returned, the AT commands written and the
\* notifications that waited unread on the serial link when it began.
TxAttempt(pkt, answer) ==
    [pkt |-> pkt, answer |-> answer, ok |-> (answer = AT_OK),
     at |-> <<AT_PRECV_OFF, AT_PSEND>> \o CommandsAfterSend(answer),
     unread |-> rxQueue]

\* What startPairing returns once the session is armed: _sendWelcome's
\* result, that is _sendPacket's.
StartPairingResult(txOk) == txOk

\* LoRaManager::startPairing.  answer: the modem's answer to AT+PSEND.
startPairing(mac, answer) ==
    /\ pc = "idle"
    /\ IF PairingBusy \/ _isNodeRegistered(mac)
         THEN /\ out' = Out("startPairing", mac, FALSE, <<>>, <<>>, <<>>)
              /\ UNCHANGED <<pairVars, rxQueue>>
         ELSE LET id == _getNextFreeID IN
              IF id = 0
                THEN /\ pairingNodeID' = id
                     /\ out' = Out("startPairing", mac, FALSE, <<>>, <<>>, <<>>)
                     /\ UNCHANGED <<pairingState, pairingMAC, pairingStartTime, rxQueue>>
                ELSE /\ pairingNodeID' = id
                     /\ pairingMAC' = mac
                     /\ pairingStartTime' = now
                     /\ pairingState' = PAIR_WAITING_ACK
                     \* _sendPacket drains the serial buffer before AT+PSEND
                     /\ rxQueue' = SerialAfterSend(rxQueue)
                     /\ LET tx == TxAttempt(_sendWelcome(mac, id), answer) IN
                          out' = Out("startPairing", mac, StartPairingResult(tx.ok),
                                     <<>>, <<tx>>, <<>>)
    /\ UNCHANGED <<lastID, nodeFw, now, updVars, scanVars, registeredNodes, lastNodeCheck, nodesFile>>

\* cancelPairing forgetting to clear the assigned ID.
CancelledSessionKeepsID == [state |-> PAIR_IDLE, mac |-> ZeroMAC, id |-> pairingNodeID]

\* The session fields cancelPairing leaves behind.
CancelledSession == [state |-> PAIR_IDLE, mac |-> ZeroMAC, id |-> 0]

\* LoRaManager::cancelPairing (out.arg: the pairing state it found)
cancelPairing ==
    /\ pc = "idle"
    /\ pairingState' = CancelledSession.state
    /\ pairingMAC' = CancelledSession.mac
    /\ pairingNodeID' = CancelledSession.id
    /\ out' = Out("cancelPairing", pairingState, TRUE, <<>>, <<>>, <<>>)
    /\ UNCHANGED <<lastID, nodeFw, now, updVars, rxQueue, scanVars, pairingStartTime,
                   registeredNodes, lastNodeCheck, nodesFile>>

(***************************************************************************)
(* Commands.                                                               *)
(***************************************************************************)
\* _sendCommand filling param2 with the parameter and param1 with 0.
CommandPacketSwapped(nodeID, cmdType, param1, param2) ==
    [type |-> PKG_CMD, targetID |-> nodeID, cmdType |-> cmdType,
     param1 |-> param2, param2 |-> param1]

\* The CommandPacket_t _sendCommand builds.
CommandPacket(nodeID, cmdType, param1, param2) ==
    [type |-> PKG_CMD, targetID |-> nodeID, cmdType |-> cmdType,
     param1 |-> param1, param2 |-> param2]

\* LoRaManager::_sendCommand, called as operation op.  out.arg: the target
\* and the parameter the caller gave.
_sendCommand(op, nodeID, cmdType, param1, param2, answer) ==
    /\ pc = "idle"
    \* _sendPacket drains the serial buffer before AT+PSEND
    /\ rxQueue' = SerialAfterSend(rxQueue)
    /\ LET tx == TxAttempt(CommandPacket(nodeID, cmdType, param1, param2), answer) IN
         out' = Out(op, <<nodeID, param1>>, tx.ok, <<>>, <<tx>>, <<>>)
    /\ UNCHANGED <<lastID, nodeFw, now, updVars, scanVars, pairVars, registeredNodes,
                   lastNodeCheck, nodesFile>>

\* LoRaManager::sendRelayCommand
sendRelayCommand(nodeID, relayBitmap, answer) ==
    _sendCommand("sendRelayCommand", nodeID, CMD_RELAY_SET, relayBitmap, 0, answer)

\* LoRaManager::sendRelayToggle
sendRelayToggle(nodeID, relayNum, answer) ==
    _sendCommand("sendRelayToggle", nodeID, CMD_RELAY_TOGGLE, relayNum, 0, answer)

\* LoRaManager::requestNodeStatus
requestNodeStatus(nodeID, answer) ==
    _sendCommand("requestNodeStatus", nodeID, CMD_REQUEST_STATUS, 0, 0, answer)

\* LoRaManager::sendResetCommand
sendResetCommand(nodeID, answer) ==
    _sendCommand("sendResetCommand", nodeID, CMD_RESET, 0, 0, answer)

(***************************************************************************)
(* Registry removal.                                                       *)
(***************************************************************************)
\* Index of the first node whose nodeID matches (0: none): removeNode's loop.
FirstWithID(nodeID) ==
    LET hits == { i \in 1..Len(registeredNodes) : registeredNodes[i].nodeID = nodeID }
    IN IF hits = {} THEN 0 ELSE CHOOSE i \in hits : \A j \in hits : i <= j

\* vector::erase hitting the last position whatever the iterator.
EraseLast(s, k) == SubSeq(s, 1, Len(s) - 1)

\* vector::erase of position k
EraseAt(s, k) == SubSeq(s, 1, k - 1) \o SubSeq(s, k + 1, Len(s))

\* LoRaManager::removeNode
removeNode(nodeID, fsOk) ==
    /\ pc = "idle"
    /\ LET k == FirstWithID(nodeID) IN
       IF k = 0
         THEN /\ out' = Out("removeNode", nodeID, FALSE, <<>>, <<>>, <<>>)
              /\ UNCHANGED <<registeredNodes, nodesFile>>
         ELSE /\ registeredNodes' = EraseAt(registeredNodes, k)
              /\ nodesFile' = saveNodes(nodesFile, registeredNodes', fsOk)
              /\ out' = Out("removeNode", nodeID, TRUE, <<>>, <<>>, <<fsOk>>)
    /\ UNCHANGED <<lastID, nodeFw, now, updVars, rxQueue, scanVars, pairVars, lastNodeCheck>>

(***************************************************************************)
(* Registry load.                                                          *)
(***************************************************************************)
\* sscanf's %x: the digits it accepts, upper or lower case, and their value.
HexChars == {"0","1","2","3","4","5","6","7","8","9",
             "A","B","C","D","E","F","a","b","c","d","e","f"}
\* The conversion reading decimal digits only, as %d would.
IsDecimalChar(c) == c \in {"0","1","2","3","4","5","6","7","8","9"}

IsHexChar(c) == c \in HexChars
HexValue(c) ==
    CASE c = "0" -> 0 [] c = "1" -> 1 [] c = "2" -> 2 [] c = "3" -> 3
      [] c = "4" -> 4 [] c = "5" -> 5 [] c = "6" -> 6 [] c = "7" -> 7
      [] c = "8" -> 8 [] c = "9" -> 9
      [] c \in {"A", "a"} -> 10 [] c \in {"B", "b"} -> 11
      [] c \in {"C", "c"} -> 12 [] c \in {"D", "d"} -> 13
      [] c \in {"E", "e"} -> 14 [] c \in {"F", "f"} -> 15

\* One %x conversion from position pos: n digits read, v their value as
\* the (uint8_t) cast will keep it.
RECURSIVE ScanHex(_, _, _)
ScanHex(str, pos, acc) ==
    IF pos <= Len(str) /\ IsHexChar(str[pos])
      THEN ScanHex(str, pos + 1,
                   [n |-> acc.n + 1, v |-> (acc.v * 16 + HexValue(str[pos])) % 256])
      ELSE acc

\* sscanf("%x:%x:%x:%x:%x:%x"): the values converted before the first
\* mismatch.
RECURSIVE ScanGroups(_, _, _)
ScanGroups(str, pos, got) ==
    IF Len(got) = MAC_ADDR_LEN THEN got
    ELSE LET h == ScanHex(str, pos, [n |-> 0, v |-> 0]) IN
         IF h.n = 0 THEN got
         ELSE IF pos + h.n <= Len(str) /\ str[pos + h.n] = ":"
                THEN ScanGroups(str, pos + h.n + 1, Append(got, h.v))
                ELSE Append(got, h.v)

\* LoRaManager::stringToMAC: whether it succeeded, and the bytes it stored.
stringToMAC(str) ==
    IF Len(str) < MAC_STRING_LEN THEN [ok |-> FALSE, mac |-> <<>>]
    ELSE LET v == ScanGroups(str, 1, <<>>) IN
         IF Len(v) /= MAC_ADDR_LEN THEN [ok |-> FALSE, mac |-> <<>>]
         ELSE [ok |-> TRUE, mac |-> v]

\* The RegisteredNode loadNodes builds from one entry of the document.
\* stringToMAC's result is not looked at: when it fails node.macAddr keeps
\* whatever the stack held (garbage).
LoadedNode(entry, garbage) ==
    LET m == stringToMAC(entry.mac) IN
    [nodeID |-> entry.id, macAddr |-> IF m.ok THEN m.mac ELSE garbage,
     deviceType |-> entry.type, name |-> entry.name,
     relayStatus |-> 0, lastRSSI |-> 0, lastSNR |-> 0, uptime |-> 0,
     lastSeen |-> 0, online |-> FALSE, valid |-> TRUE]

\* loadNodes without its _registeredNodes.clear().
UnclearedRegistry(nodes) == nodes

\* _registeredNodes.clear() before the entries are pushed back.
ClearedRegistry(nodes) == <<>>

\* loadNodes clearing the registry before it knows the file is usable.
RegistryLostOnFailedLoad(nodes) == <<>>

\* The registry after loadNodes returns false: every such return precedes
\* the clear().
RegistryAfterFailedLoad(nodes) == nodes

\* loadNodes' loop over the document's "nodes" array: one push_back for
\* each entry, in order.
RECURSIVE PushBackLoaded(_, _, _)
PushBackLoaded(nodes, doc, garbage) ==
    IF doc = <<>> THEN nodes
    ELSE PushBackLoaded(Append(nodes, LoadedNode(Head(doc), garbage)), Tail(doc), garbage)

\* LoRaManager::loadNodes on registry `nodes` and file `file`.  opens:
\* LittleFS.open(NODES_FILE_PATH, "r") yields a file; parses:
\* deserializeJson reports no error.
LoadNodesResult(nodes, file, opens, parses, garbage) ==
    IF ~file.exists \/ ~opens \/ ~parses
      THEN [ret |-> FALSE, nodes |-> RegistryAfterFailedLoad(nodes)]
      ELSE [ret |-> TRUE,
            nodes |-> PushBackLoaded(ClearedRegistry(nodes), file.nodes, garbage)]

\* The gateway restarts: the constructor's values, then LoRaManager::begin
\* up to its loadNodes().  Flash keeps /nodes.json; setup() goes on to its
\* own loadNodes.  out.arg: whether the file existed, opened and parsed,
\* and the size of the registry loadNodes found.
begin(opens, parses, garbage) ==
    /\ now' = 0
    /\ pc' = "setup"
    /\ updNow' = 0
    /\ rxQueue' = <<>>
    /\ scanMode' = FALSE
    /\ scanStartTime' = 0
    /\ scanDuration' = LORA_SCAN_DURATION
    /\ discoveredNodes' = <<>>
    /\ pairingState' = PAIR_IDLE
    /\ pairingMAC' = ZeroMAC
    /\ pairingNodeID' = 0
    /\ pairingStartTime' = 0
    /\ lastNodeCheck' = 0
    /\ LET r == LoadNodesResult(<<>>, nodesFile, opens, parses, garbage) IN
         /\ registeredNodes' = r.nodes
         /\ out' = Out("begin", <<nodesFile.exists, opens, parses, 0>>, r.ret,
                       <<>>, <<>>, <<>>)
    /\ UNCHANGED <<lastID, nodeFw, nodesFile>>

\* setup()'s call of LoRaManager::loadNodes, after begin() has returned.
\* out.arg: whether the file existed, opened and parsed, and the size of
\* the registry it found.
loadNodes(opens, parses, garbage) ==
    /\ pc = "setup"
    /\ pc' = "idle"
    /\ LET r == LoadNodesResult(registeredNodes, nodesFile, opens, parses, garbage) IN
         /\ registeredNodes' = r.nodes
         /\ out' = Out("loadNodes",
                       <<nodesFile.exists, opens, parses, Len(registeredNodes)>>, r.ret,
                       <<>>, <<>>, <<>>)
    /\ UNCHANGED <<lastID, nodeFw, now, updNow, rxQueue, scanVars, pairVars, lastNodeCheck, nodesFile>>

(***************************************************************************)
(* Scan.                                                                   *)
(***************************************************************************)
\* The discovered list left as it was.
ClearDiscoveredNodesSkipped == discoveredNodes

\* LoRaManager::clearDiscoveredNodes
clearDiscoveredNodes == <<>>

\* LoRaManager::startScan; out.arg is the duration and whether a scan was
\* already active.
startScan(duration) ==
    /\ pc = "idle"
    /\ scanMode' = TRUE
    /\ scanStartTime' = now
    /\ scanDuration' = duration
    /\ discoveredNodes' = clearDiscoveredNodes
    /\ out' = Out("startScan", <<duration, scanMode>>, TRUE, <<>>, <<>>, <<>>)
    /\ UNCHANGED <<lastID, nodeFw, now, updVars, rxQueue, pairVars, registeredNodes,
                   lastNodeCheck, nodesFile>>

\* A stopScan that also forgets what the scan found.
stopScanClearing ==
    /\ pc = "idle"
    /\ scanMode' = FALSE
    /\ discoveredNodes' = <<>>
    /\ out' = Out("stopScan", 0, TRUE, <<>>, <<>>, <<>>)
    /\ UNCHANGED <<lastID, nodeFw, now, updVars, rxQueue, scanStartTime, scanDuration,
                   pairVars, registeredNodes, lastNodeCheck, nodesFile>>

\* LoRaManager::clearDiscoveredNodes called on its own, through the public
\* interface.
callClearDiscoveredNodes ==
    /\ pc = "idle"
    /\ discoveredNodes' = clearDiscoveredNodes
    /\ out' = Out("clearDiscoveredNodes", 0, TRUE, <<>>, <<>>, <<>>)
    /\ UNCHANGED <<lastID, nodeFw, now, updVars, rxQueue, scanMode, scanStartTime,
                   scanDuration, pairVars, registeredNodes, lastNodeCheck,
                   nodesFile>>

\* LoRaManager::stopScan
stopScan ==
    /\ pc = "idle"
    /\ scanMode' = FALSE
    /\ out' = Out("stopScan", 0, TRUE, <<>>, <<>>, <<>>)
    /\ UNCHANGED <<lastID, nodeFw, now, updVars, rxQueue, scanStartTime, scanDuration,
                   discoveredNodes, pairVars, registeredNodes, lastNodeCheck,
                   nodesFile>>

(***************************************************************************)
(* update(): entry, packet dispatch, timeout checks.                       *)
(***************************************************************************)
\* update() is entered from loop(): uint32_t now = millis().
UpdateBegin ==
    /\ pc = "idle"
    /\ pc' = "rx"
    /\ updNow' = now
    /\ out' = Quiet
    /\ UNCHANGED <<lastID, nodeFw, now, rxQueue, scanVars, pairVars, registeredNodes,
                   lastNodeCheck, nodesFile>>

\* LoRaManager::_isDuplicateDiscovered
_isDuplicateDiscovered(mac) ==
    \E i \in 1..Len(discoveredNodes) : discoveredNodes[i].macAddr = mac

DiscoveredCb(node) == [cb |-> "discovered", node |-> node]

\* The Hello filter without the registry test.
HelloPassesFilterNoRegistry(pkt) ==
    /\ scanMode
    /\ ~_isDuplicateDiscovered(pkt.macAddr)

\* The Hello filter without the scan test.
HelloPassesFilterNoScan(pkt) ==
    /\ ~_isDuplicateDiscovered(pkt.macAddr)
    /\ ~_isNodeRegistered(pkt.macAddr)

\* The Hello filter without the duplicate test.
HelloPassesFilterNoDuplicate(pkt) ==
    /\ scanMode
    /\ ~_isNodeRegistered(pkt.macAddr)

\* _handleHello's three early returns: no scan, duplicate, registered.
HelloPassesFilter(pkt) ==
    /\ scanMode
    /\ ~_isDuplicateDiscovered(pkt.macAddr)
    /\ ~_isNodeRegistered(pkt.macAddr)

\* The capacity test with > for >=.
DiscoveredListFullStrict == Len(discoveredNodes) > MAX_DISCOVERED_NODES

\* _addDiscoveredNode's capacity test.
DiscoveredListFull == Len(discoveredNodes) >= MAX_DISCOVERED_NODES

\* The entry built with the registry's default device type.
NewDiscoveredNodeDefaultType(pkt) ==
    [macAddr |-> pkt.macAddr, deviceType |-> DEV_TYPE_RELAY_2CH,
     fwVersion |-> pkt.fwVersion, rssi |-> HELLO_RSSI, snr |-> HELLO_SNR,
     discoveredAt |-> now, valid |-> TRUE]

\* The DiscoveredNode _addDiscoveredNode builds from a Hello.
NewDiscoveredNode(pkt) ==
    [macAddr |-> pkt.macAddr, deviceType |-> pkt.deviceType,
     fwVersion |-> pkt.fwVersion, rssi |-> HELLO_RSSI, snr |-> HELLO_SNR,
     discoveredAt |-> now, valid |-> TRUE]

\* LoRaManager::_handleHello with _addDiscoveredNode
_handleHello(pkt) ==
    /\ IF HelloPassesFilter(pkt) /\ ~DiscoveredListFull
         THEN LET node == NewDiscoveredNode(pkt)
              IN /\ discoveredNodes' = Append(discoveredNodes, node)
                 /\ out' = Out("handleHello", pkt.macAddr, TRUE,
                               << DiscoveredCb(node) >>, <<>>, <<>>)
         ELSE /\ discoveredNodes' = discoveredNodes
              /\ out' = Out("handleHello", pkt.macAddr, FALSE, <<>>, <<>>, <<>>)
    /\ UNCHANGED <<scanMode, scanStartTime, scanDuration, pairVars,
                   registeredNodes, nodesFile>>

\* _handleAck taking any Ack as the answer to the pending Welcome.
IsPairingAckAnyType(pkt) == pairingState = PAIR_WAITING_ACK

\* _handleAck also requiring the Ack to carry the session's Node ID.
IsPairingAckForSession(pkt) ==
    /\ pairingState = PAIR_WAITING_ACK
    /\ pkt.ackType = PKG_WELCOME
    /\ pkt.nodeID = pairingNodeID

\* _handleAck's test that the Ack answers the pending Welcome.
IsPairingAck(pkt) ==
    pairingState = PAIR_WAITING_ACK /\ pkt.ackType = PKG_WELCOME

\* _handleAck without its look at the discovered list.
BackfillDeviceTypeDefault == DEV_TYPE_RELAY_2CH

\* _handleAck's device type: the first discovered entry with the session's
\* MAC, else the default.
BackfillDeviceType ==
    LET hits == { i \in 1..Len(discoveredNodes) :
                    discoveredNodes[i].macAddr = pairingMAC }
    IN IF hits = {} THEN DEV_TYPE_RELAY_2CH
       ELSE discoveredNodes[CHOOSE i \in hits : \A j \in hits : i <= j].deviceType

\* The new node stamped with the session's start instead of millis().
NewRegisteredNodeStale ==
    [nodeID |-> pairingNodeID, macAddr |-> pairingMAC,
     deviceType |-> BackfillDeviceType, name |-> NodeName(pairingNodeID),
     relayStatus |-> 0, lastRSSI |-> 0, lastSNR |-> 0, uptime |-> 0,
     lastSeen |-> pairingStartTime, online |-> TRUE, valid |-> TRUE]

\* The RegisteredNode _handleAck constructs.
NewRegisteredNode ==
    [nodeID |-> pairingNodeID, macAddr |-> pairingMAC,
     deviceType |-> BackfillDeviceType, name |-> NodeName(pairingNodeID),
     relayStatus |-> 0, lastRSSI |-> 0, lastSNR |-> 0, uptime |-> 0,
     lastSeen |-> now, online |-> TRUE, valid |-> TRUE]

\* The failure branch without its callback.
AckFailedNoCallback == <<>>

\* The pairing callbacks _handleAck fires on a non-OK status.
AckFailedCallbacks == << PairingCb(pairingNodeID, FALSE) >>

\* The state _handleAck holds while the pairing callback runs.
AckTerminalState(pkt) == IF pkt.status = ERR_NONE THEN PAIR_SUCCESS ELSE PAIR_FAILED

\* The terminal state left standing after the callback.
StateRetained(terminal) == terminal

\* The pairing state once the callback has returned and the operation
\* that reached the terminal state returns: _pairingState = PAIR_IDLE.
StateOnReturn(terminal) == PAIR_IDLE

\* LoRaManager::_handleAck, with main.cpp's onPairingComplete, which saves
\* the registry once more on success.  fs1, fs2: the two file opens.
\* out.arg: the nodeID the Ack carries, which is logged and nothing else.
_handleAck(pkt, fs1, fs2) ==
    /\ IF IsPairingAck(pkt)
         THEN /\ IF pkt.status = ERR_NONE
                   THEN /\ registeredNodes' = Append(registeredNodes, NewRegisteredNode)
                        /\ nodesFile' = saveNodes(saveNodes(nodesFile, registeredNodes', fs1),
                                                  registeredNodes', fs2)
                        /\ out' = Out("handleAck", pkt.nodeID, TRUE,
                                      << PairingCb(pairingNodeID, TRUE) >>, <<>>,
                                      <<fs1, fs2>>)
                   ELSE /\ out' = Out("handleAck", pkt.nodeID, TRUE, AckFailedCallbacks, <<>>, <<>>)
                        /\ UNCHANGED <<registeredNodes, nodesFile>>
              /\ pairingState' = StateOnReturn(AckTerminalState(pkt))
         ELSE /\ out' = Out("handleAck", pkt.nodeID, FALSE, <<>>, <<>>, <<>>)
              /\ UNCHANGED <<pairingState, registeredNodes, nodesFile>>
    /\ UNCHANGED <<scanVars, pairingMAC, pairingNodeID, pairingStartTime>>

\* LoRaManager::getNodeByID: the index of the first valid node with the ID,
\* 0 for nullptr.
getNodeByID(nodeID) ==
    LET hits == { i \in 1..Len(registeredNodes) :
                    registeredNodes[i].valid /\ registeredNodes[i].nodeID = nodeID }
    IN IF hits = {} THEN 0 ELSE CHOOSE i \in hits : \A j \in hits : i <= j

\* LoRaManager::getOnlineNodeCount (uint8_t count)
getOnlineNodeCount(nodes) ==
    Cardinality({ i \in 1..Len(nodes) : nodes[i].valid /\ nodes[i].online }) % 256

NodeDataCb(nodeID, pkt) == [cb |-> "nodeData", nodeID |-> nodeID, data |-> pkt]

\* The Data update without the online flag.
NodeAfterDataStillOffline(node, pkt) ==
    [node EXCEPT !.relayStatus = pkt.relayStatus, !.lastRSSI = pkt.rssi,
                 !.lastSNR = pkt.snr, !.uptime = pkt.uptime, !.lastSeen = now]

\* The fields _handleData writes into the node it found.
NodeAfterData(node, pkt) ==
    [node EXCEPT !.relayStatus = pkt.relayStatus, !.lastRSSI = pkt.rssi,
                 !.lastSNR = pkt.snr, !.uptime = pkt.uptime, !.lastSeen = now,
                 !.online = TRUE]

\* The fields _handleHeartbeat writes into the node it found.
NodeAfterHeartbeat(node, pkt) ==
    [node EXCEPT !.relayStatus = pkt.relayStatus, !.lastSeen = now,
                 !.online = TRUE]

\* LoRaManager::_handleData; out.arg is the packet's nodeID and whether the
\* node found was online, out.ret whether a node was found.
_handleData(pkt) ==
    /\ LET k == getNodeByID(pkt.nodeID) IN
         IF k = 0
           THEN /\ registeredNodes' = registeredNodes
                /\ out' = Out("handleData", <<pkt.nodeID, FALSE>>, FALSE,
                              <<>>, <<>>, <<>>)
           ELSE /\ registeredNodes' =
                     [registeredNodes EXCEPT ![k] = NodeAfterData(@, pkt)]
                /\ out' = Out("handleData",
                              <<pkt.nodeID, registeredNodes[k].online>>, TRUE,
                              << NodeDataCb(pkt.nodeID, pkt) >>, <<>>, <<>>)
    /\ UNCHANGED <<scanVars, pairVars, nodesFile>>

\* LoRaManager::_handleHeartbeat; out as for _handleData.
_handleHeartbeat(pkt) ==
    /\ LET k == getNodeByID(pkt.nodeID) IN
         IF k = 0
           THEN /\ registeredNodes' = registeredNodes
                /\ out' = Out("handleHeartbeat", <<pkt.nodeID, FALSE>>, FALSE,
                              <<>>, <<>>, <<>>)
           ELSE /\ registeredNodes' =
                     [registeredNodes EXCEPT ![k] = NodeAfterHeartbeat(@, pkt)]
                /\ out' = Out("handleHeartbeat",
                              <<pkt.nodeID, registeredNodes[k].online>>, TRUE,
                              <<>>, <<>>, <<>>)
    /\ UNCHANGED <<scanVars, pairVars, nodesFile>>

\* sizeof of the packed structs _handlePacket casts to.
SizeOf(type) ==
    CASE type = PKG_HELLO -> SIZEOF_HELLO
      [] type = PKG_ACK -> SIZEOF_ACK
      [] type = PKG_DATA -> SIZEOF_DATA
      [] type = PKG_HEARTBEAT -> SIZEOF_HEARTBEAT
      [] type = PKG_WELCOME -> SIZEOF_WELCOME
      [] type = PKG_CMD -> SIZEOF_CMD

\* The number of payload bytes the modem reported.  A notification cut short
\* carries it as len; the fields past it are what the stack buffer held.
PacketLen(pkt) == IF "len" \in DOMAIN pkt THEN pkt.len ELSE SizeOf(pkt.type)

\* _handlePacket without its length tests.
LongEnoughUnchecked(pkt, size) == TRUE

\* _handlePacket's test before each cast: len >= sizeof(...).
LongEnough(pkt, size) == PacketLen(pkt) >= size

\* _handlePacket's paths that call no handler: a short packet, or the
\* default arm of the switch.  out.arg: the type byte.
Discarded(pkt) ==
    /\ out' = Out("discard", pkt.type, FALSE, <<>>, <<>>, <<>>)
    /\ UNCHANGED <<scanVars, pairVars, registeredNodes, nodesFile>>

\* The loop taking the notification that arrived last.
NewestNotification(queue) == queue[Len(queue)]

\* _serial->read() hands over the bytes in the order the modem wrote them:
\* the notification the loop completes next is the one that arrived first.
NextNotification(queue) == Head(queue)

\* What is left on the serial link once that notification has been read.
Remaining(queue) == Tail(queue)

\* One turn of _processRxData's loop: the next notification goes through
\* _handlePacket to its handler.
RxDispatch(fs1, fs2) ==
    /\ pc = "rx"
    /\ rxQueue /= <<>>
    /\ rxQueue' = Remaining(rxQueue)
    /\ LET pkt == NextNotification(rxQueue) IN
       CASE pkt.type = PKG_HELLO /\ LongEnough(pkt, SIZEOF_HELLO) -> _handleHello(pkt)
         [] pkt.type = PKG_ACK /\ LongEnough(pkt, SIZEOF_ACK) -> _handleAck(pkt, fs1, fs2)
         [] pkt.type = PKG_DATA /\ LongEnough(pkt, SIZEOF_DATA) -> _handleData(pkt)
         [] pkt.type = PKG_HEARTBEAT /\ LongEnough(pkt, SIZEOF_HEARTBEAT)
              -> _handleHeartbeat(pkt)
         [] OTHER -> Discarded(pkt)
    /\ UNCHANGED <<lastID, nodeFw, now, updVars, lastNodeCheck>>

\* The timeout test with > for >=.
PairingTimedOutStrict ==
    /\ pairingState = PAIR_WAITING_ACK
    /\ Sub32(updNow, pairingStartTime) > LORA_PAIRING_TIMEOUT

\* update()'s pairing-timeout test.
PairingTimedOut ==
    /\ pairingState = PAIR_WAITING_ACK
    /\ Sub32(updNow, pairingStartTime) >= LORA_PAIRING_TIMEOUT

\* The scan-deadline test with > for >=.
ScanElapsedStrict == scanMode /\ Sub32(updNow, scanStartTime) > scanDuration

\* update()'s scan-deadline test.
ScanElapsed == scanMode /\ Sub32(updNow, scanStartTime) >= scanDuration

\* The sweep flipping the flag of every valid node that is out of date.
UpdateNodeOnlineStatusToggle(nodes) ==
    [i \in 1..Len(nodes) |->
        IF /\ nodes[i].valid
           /\ Sub32(now, nodes[i].lastSeen) > NODE_OFFLINE_THRESHOLD
          THEN [nodes[i] EXCEPT !.online = ~nodes[i].online]
          ELSE nodes[i]]

\* The sweep with >= for >.
UpdateNodeOnlineStatusInclusive(nodes) ==
    [i \in 1..Len(nodes) |->
        IF /\ nodes[i].valid
           /\ nodes[i].online
           /\ Sub32(now, nodes[i].lastSeen) >= NODE_OFFLINE_THRESHOLD
          THEN [nodes[i] EXCEPT !.online = FALSE]
          ELSE nodes[i]]

\* LoRaManager::_updateNodeOnlineStatus
_updateNodeOnlineStatus(nodes) ==
    [i \in 1..Len(nodes) |->
        IF /\ nodes[i].valid
           /\ nodes[i].online
           /\ Sub32(now, nodes[i].lastSeen) > NODE_OFFLINE_THRESHOLD
          THEN [nodes[i] EXCEPT !.online = FALSE]
          ELSE nodes[i]]

\* What update() logs: "Scan completed", and "Node %d went offline" for
\* the nodes the sweep marks, if the sweep is due.
UpdateLog ==
    LET swept == Sub32(updNow, lastNodeCheck) >= NODE_CHECK_INTERVAL
        after == _updateNodeOnlineStatus(registeredNodes)
    IN [scanCompleted |-> ScanElapsed,
        swept |-> swept,
        wentOffline |-> IF swept
                          THEN { registeredNodes[i].nodeID : i \in
                                   { j \in 1..Len(registeredNodes) :
                                       after[j] /= registeredNodes[j] } }
                          ELSE {}]

\* _processRxData returning after the first pass of its loop, whatever is
\* left to read.
SerialDrainedOrNot == TRUE

\* _processRxData returns: `while (_serial->available())` finds nothing
\* more to read.
SerialDrained == rxQueue = <<>>

\* The rest of update() once the serial link is drained: scan deadline,
\* pairing timeout, periodic sweep.  out.arg is what it logs.
UpdateFinish ==
    /\ pc = "rx"
    /\ SerialDrained
    /\ pc' = "idle"
    /\ updNow' = 0
    /\ scanMode' = IF ScanElapsed THEN FALSE ELSE scanMode
    /\ IF PairingTimedOut
         THEN /\ pairingState' = StateOnReturn(PAIR_TIMEOUT)
              /\ out' = Out("updateFinish", UpdateLog, TRUE,
                            << PairingCb(pairingNodeID, FALSE) >>, <<>>, <<>>)
         ELSE /\ pairingState' = pairingState
              /\ out' = Out("updateFinish", UpdateLog, TRUE, <<>>, <<>>, <<>>)
    /\ IF Sub32(updNow, lastNodeCheck) >= NODE_CHECK_INTERVAL
         THEN /\ lastNodeCheck' = updNow
              /\ registeredNodes' = _updateNodeOnlineStatus(registeredNodes)
         ELSE UNCHANGED <<lastNodeCheck, registeredNodes>>
    /\ UNCHANGED <<lastID, nodeFw, now, rxQueue, scanStartTime, scanDuration, discoveredNodes,
                   pairingMAC, pairingNodeID, pairingStartTime, nodesFile>>

(***************************************************************************)
(* The Node firmware: reception and the Welcome.                           *)
(***************************************************************************)
\* The Gateway operations that transmit.
GatewayTxOps ==
    {"startPairing", "sendRelayCommand", "sendRelayToggle", "requestNodeStatus",
     "sendResetCommand"}

\* The packet the Gateway's modem has just put on the air, as a sequence of
\* none or one.
OnAir ==
    IF out.op \in GatewayTxOps /\ out.tx /= <<>> /\ out.tx[1].ok
      THEN << out.tx[1].pkt >> ELSE <<>>

\* onLoRaRxDone at each Node of `heard`, the Nodes the transmission
\* reaches: the packet is copied into rxBuffer and rxDone is raised.  The
\* transmission is over for the others.
onLoRaRxDone(heard) ==
    /\ OnAir /= <<>>
    /\ heard /= {}
    /\ nodeFw' = [n \in NodeIdx |->
                    IF n \in heard
                      THEN [nodeFw[n] EXCEPT !.rxBuffer = OnAir[1], !.rxDone = TRUE]
                      ELSE nodeFw[n]]
    /\ out' = Out("onLoRaRxDone", heard, TRUE, <<>>, <<>>, <<>>)
    /\ UNCHANGED <<lastID, now, updVars, rxQueue, scanVars, pairVars,
                   registeredNodes, lastNodeCheck, nodesFile>>

\* handleWelcome accepting a Welcome addressed to any Node.
WelcomeAcceptedAnyMAC(fw, mac, pkt) == fw.deviceState = STATE_DISCOVERY

\* handleWelcome's two early returns: MAC mismatch, not in Discovery.
WelcomeAccepted(fw, mac, pkt) ==
    /\ pkt.targetMac = mac
    /\ fw.deviceState = STATE_DISCOVERY

\* saveConfig: the magic byte and the Node ID written to flash.
saveConfig(fw) ==
    [fw EXCEPT !.nvm = [magic |-> NVM_MAGIC_VALUE, nodeID |-> fw.nodeID]]

\* sendAckPacket: the AckPacket_t handed to api.lora.psend.
sendAckPacket(fw, ackType, status) ==
    [type |-> PKG_ACK, nodeID |-> fw.nodeID, ackType |-> ackType, status |-> status]

\* handleWelcome on a Node with globals fw and hardware address mac: the
\* globals it leaves and the packets it sends.
handleWelcome(fw, mac, pkt) ==
    IF WelcomeAccepted(fw, mac, pkt)
      THEN LET saved == saveConfig([fw EXCEPT !.nodeID = pkt.assignedID]) IN
           [fw |-> [saved EXCEPT !.deviceState = STATE_NORMAL],
            tx |-> << sendAckPacket(saved, PKG_WELCOME, ERR_NONE) >>]
      ELSE [fw |-> fw, tx |-> <<>>]

\* processRxPacket on the packet in rxBuffer.  Of the three types it knows
\* the Welcome is modelled; a Command or Config packet reaches its handler
\* only in STATE_NORMAL, and the Gateway of the runs with Nodes sends
\* Welcomes only.
processRxPacket(fw, mac) ==
    LET pkt == fw.rxBuffer IN
    IF pkt.type = PKG_WELCOME /\ PacketLen(pkt) >= SIZEOF_WELCOME
      THEN handleWelcome(fw, mac, pkt)
      ELSE [fw |-> fw, tx |-> <<>>]

\* One pass of Node n's loop() with rxDone raised.  delivered: what the
\* Node transmits reaches the Gateway's modem and is reported on its serial
\* link.  out.arg: the Node, the packet processed and the globals before.
NodeLoop(n, delivered) ==
    /\ nodeFw[n].rxDone
    /\ LET r == processRxPacket([nodeFw[n] EXCEPT !.rxDone = FALSE], MacOf(n))
           arrives == r.tx /= <<>> /\ delivered /\ Len(rxQueue) < MaxRx
       IN /\ nodeFw' = [nodeFw EXCEPT ![n] = r.fw]
          /\ rxQueue' = IF arrives THEN Append(rxQueue, r.tx[1]) ELSE rxQueue
          /\ out' = Out("nodeLoop", <<n, nodeFw[n].rxBuffer, nodeFw[n]>>, arrives,
                        <<>>, r.tx, <<>>)
    /\ UNCHANGED <<lastID, now, updVars, scanVars, pairVars, registeredNodes,
                   lastNodeCheck, nodesFile>>

\* Node n is power-cycled: setup() runs on what its flash holds.
NodeSetup(n) ==
    /\ nodeFw' = [nodeFw EXCEPT ![n] = NodeAfterSetup(nodeFw[n].nvm)]
    /\ out' = Out("nodeSetup", n, TRUE, <<>>, <<>>, <<>>)
    /\ UNCHANGED <<lastID, now, updVars, rxQueue, scanVars, pairVars,
                   registeredNodes, lastNodeCheck, nodesFile>>

(***************************************************************************)
(* The system.                                                             *)
(***************************************************************************)
\* FS: the outcomes LittleFS.open(NODES_FILE_PATH, "w") may have.
NextWith(FS) ==
    \/ \E t \in Instants : Tick(t)
    \/ \E pkt \in AckPackets : Receive(pkt)
    \/ \E mac \in MACS, answer \in {AT_OK, AT_ERROR} : startPairing(mac, answer)
    \/ cancelPairing
    \/ \E id \in 1..MaxNodeID, fsOk \in FS : removeNode(id, fsOk)
    \/ UpdateBegin
    \/ \E fs1 \in FS, fs2 \in FS : RxDispatch(fs1, fs2)
    \/ UpdateFinish

\* The pairing protocol with the flash file system healthy.
Next == NextWith({TRUE})

Spec == Init /\ [][Next]_vars

\* The update loop keeps running and the clock keeps advancing: loop()
\* calls update() forever and millis() is driven by hardware.  The drain
\* loop of _processRxData reads at processor speed what the radio delivers
\* at packet rate, so it does empty the serial buffer (the strong fairness
\* of the dispatch that takes the last notification) and update() goes on.
LiveSpec ==
    /\ Spec
    /\ SF_vars(\E t \in Instants : Tick(t))
    /\ WF_vars(UpdateBegin)
    /\ WF_vars(\E fs1 \in {TRUE}, fs2 \in {TRUE} : RxDispatch(fs1, fs2))
    /\ SF_vars(\E fs1 \in {TRUE}, fs2 \in {TRUE} :
                 RxDispatch(fs1, fs2) /\ rxQueue' = <<>>)
    /\ SF_vars(UpdateFinish)

\* Discovery and the pairing of what was discovered: the web interface
\* starts and stops scans, nodes broadcast Hello, the user pairs a node and
\* the node confirms.
ScanNext ==
    \/ \E t \in Instants : Tick(t)
    \/ \E pkt \in { p \in HelloPackets : p.macAddr \in {MacOf(1), MacOf(2)} } :
         Receive(pkt)
    \/ \E pkt \in { p \in AckPackets : p.ackType = PKG_WELCOME /\ p.status = ERR_NONE } :
         Receive(pkt)
    \/ startScan(LORA_PAIRING_TIMEOUT)
    \/ stopScan
    \/ \E mac \in {MacOf(1), MacOf(2)} : startPairing(mac, AT_OK)
    \/ cancelPairing
    \/ UpdateBegin
    \/ RxDispatch(TRUE, TRUE)
    \/ UpdateFinish

ScanSpec == Init /\ [][ScanNext]_vars

\* The life of one discovered entry: a node announces itself during a scan,
\* the scan ends by deadline or by stopScan, the node is paired, removed,
\* and the list is cleared by the next scan or on request.
ListNext ==
    \/ \E t \in {0, LORA_PAIRING_TIMEOUT} : Tick(t)
    \/ \E pkt \in { p \in HelloPackets : p.macAddr = MacOf(1) } : Receive(pkt)
    \/ \E pkt \in { p \in AckPackets : p.ackType = PKG_WELCOME /\ p.status = ERR_NONE } :
         Receive(pkt)
    \/ startScan(LORA_PAIRING_TIMEOUT)
    \/ stopScan
    \/ callClearDiscoveredNodes
    \/ startPairing(MacOf(1), AT_OK)
    \/ \E id \in 1..MaxNodeID : removeNode(id, TRUE)
    \/ UpdateBegin
    \/ RxDispatch(TRUE, TRUE)
    \/ UpdateFinish

ListSpec == Init /\ [][ListNext]_vars

\* A crowded neighbourhood: one more node than the discovered list can
\* hold.  Nodes are numbered in the order of their first announcement, so
\* the nodes that may announce are those already heard and the next one.
CrowdHellos ==
    { p \in [type : {PKG_HELLO},
             macAddr : { MacOf(i) : i \in 1..(MAX_DISCOVERED_NODES + 1) },
             deviceType : {DEV_TYPE_RELAY_4CH}, fwVersion : {FW_VERSION}] :
        \E i \in 1..(Len(discoveredNodes) + 1) : p.macAddr = MacOf(i) }

\* A scan in the crowded neighbourhood, within one reading of the clock;
\* the operator starts it while the serial link is quiet.
CrowdNext ==
    \/ \E pkt \in CrowdHellos : Receive(pkt)
    \/ (rxQueue = <<>> /\ startScan(LORA_SCAN_DURATION))
    \/ stopScan
    \/ UpdateBegin
    \/ RxDispatch(TRUE, TRUE)
    \/ UpdateFinish

CrowdSpec == Init /\ [][CrowdNext]_vars

\* ScanSpec with the update loop running and the clock advancing, as in
\* LiveSpec.
ScanLiveSpec ==
    /\ ScanSpec
    /\ SF_vars(\E t \in Instants : Tick(t))
    /\ WF_vars(UpdateBegin)
    /\ WF_vars(RxDispatch(TRUE, TRUE))
    /\ SF_vars(RxDispatch(TRUE, TRUE) /\ rxQueue' = <<>>)
    /\ SF_vars(UpdateFinish)

\* The instants of the long run: a node paired at 0 or 1 is seen either
\* side of the offline threshold, and once more a sweep interval later.
SweepInstants ==
    {0, 1, NODE_OFFLINE_THRESHOLD, NODE_OFFLINE_THRESHOLD + 1,
     NODE_OFFLINE_THRESHOLD + NODE_CHECK_INTERVAL + 1}

\* Registered nodes reporting, or falling silent, over minutes: nodes are
\* paired, send Data and Heartbeat, and update() sweeps the registry.
SweepNext ==
    \/ \E t \in SweepInstants : Tick(t)
    \/ \E pkt \in { p \in AckPackets : p.ackType = PKG_WELCOME /\ p.status = ERR_NONE } :
         Receive(pkt)
    \/ \E pkt \in DataPackets \cup HeartbeatPackets : Receive(pkt)
    \/ \E mac \in {MacOf(1), MacOf(2)} : startPairing(mac, AT_OK)
    \/ UpdateBegin
    \/ RxDispatch(TRUE, TRUE)
    \/ UpdateFinish

SweepSpec == Init /\ [][SweepNext]_vars

\* What an unset node.macAddr may hold when stringToMAC fails.
StackGarbage == { ZeroMAC, MacOf(1) }

\* How a read of /nodes.json may go: it opens and parses, it does not
\* open, or it opens and does not parse.
LoadOutcomes ==
    { o \in [opens : BOOLEAN, parses : BOOLEAN] : ~o.opens => o.parses }

\* A reading of millis() later than the restart and within any pairing
\* window begun at it.
PersistInstants == { LORA_PAIRING_TIMEOUT - 1 }

\* The registry and its file across restarts: nodes are paired and
\* removed with the file written each time, and the gateway restarts:
\* begin() and setup() each call loadNodes, the reads of the flash
\* succeeding or not.
PersistNext ==
    \/ \E t \in PersistInstants : Tick(t)
    \/ \E pkt \in { p \in AckPackets : p.ackType = PKG_WELCOME /\ p.status = ERR_NONE } :
         Receive(pkt)
    \/ \E mac \in {MacOf(1), MacOf(2)} : startPairing(mac, AT_OK)
    \/ \E id \in 1..MaxNodeID : removeNode(id, TRUE)
    \/ \E o \in LoadOutcomes, garbage \in StackGarbage :
         begin(o.opens, o.parses, garbage)
    \/ \E o \in LoadOutcomes, garbage \in StackGarbage :
         loadNodes(o.opens, o.parses, garbage)
    \/ UpdateBegin
    \/ RxDispatch(TRUE, TRUE)
    \/ UpdateFinish

PersistSpec == Init /\ [][PersistNext]_vars

\* The node that announces itself next when nodes are brought in one after
\* the other: its MAC is numbered by how many are registered already.
NextNewcomer == MacOf(Len(registeredNodes) + 1)

\* A site being commissioned with the firmware's own ID space (1..254):
\* nodes are paired one after the other, each answering its Welcome, until
\* one more than MAX_NODES has been asked for.
CapacityNext ==
    \/ \E pkt \in { p \in AckPackets : p.ackType = PKG_WELCOME /\ p.status = ERR_NONE } :
         Receive(pkt)
    \/ Len(registeredNodes) <= MAX_NODES /\ startPairing(NextNewcomer, AT_OK)
    \/ UpdateBegin
    \/ RxDispatch(TRUE, TRUE)
    \/ UpdateFinish

CapacitySpec == Constructed(LAST_NODE_ID) /\ [][CapacityNext]_vars

\* Commands to the nodes, around a scan and the pairing of one node: the
\* operator sends the four commands to any Node ID, registered or not, the
\* modem answers each AT+PSEND with OK, with ERROR or not at all, and Acks
\* of Welcome and of commands come in.
CmdNext ==
    \/ \E pkt \in AckPackets : Receive(pkt)
    \/ \E pkt \in { h \in HelloPackets : h.macAddr = MacOf(2) } : Receive(pkt)
    \/ startScan(LORA_SCAN_DURATION)
    \/ \E answer \in ModemAnswers : startPairing(MacOf(1), answer)
    \/ \E nodeID \in 1..MaxNodeID, relayBitmap \in {3}, answer \in ModemAnswers :
         sendRelayCommand(nodeID, relayBitmap, answer)
    \/ \E nodeID \in 1..MaxNodeID, relayNum \in {1}, answer \in ModemAnswers :
         sendRelayToggle(nodeID, relayNum, answer)
    \/ \E nodeID \in 1..MaxNodeID, answer \in ModemAnswers :
         requestNodeStatus(nodeID, answer)
    \/ \E nodeID \in 1..MaxNodeID, answer \in ModemAnswers :
         sendResetCommand(nodeID, answer)
    \/ UpdateBegin
    \/ RxDispatch(TRUE, TRUE)
    \/ UpdateFinish

CmdSpec == Init /\ [][CmdNext]_vars

\* Notifications cut short: a packet of each handled type, one byte short
\* of its struct.
ShortPackets ==
    { [h EXCEPT !.len = SIZEOF_HELLO - 1] :
        h \in [type : {PKG_HELLO}, macAddr : {MacOf(2)}, deviceType : {DEV_TYPE_RELAY_4CH},
               fwVersion : {FW_VERSION}, len : {0}] }
    \cup
    { [a EXCEPT !.len = SIZEOF_ACK - 1] :
        a \in [type : {PKG_ACK}, nodeID : {1}, ackType : {PKG_WELCOME},
               status : {ERR_NONE}, len : {0}] }
    \cup
    { [d EXCEPT !.len = SIZEOF_DATA - 1] :
        d \in [type : {PKG_DATA}, nodeID : {1}, relayStatus : {3}, rssi : {-60},
               snr : {7}, batteryLevel : {255}, uptime : {42}, len : {0}] }
    \cup
    { [b EXCEPT !.len = SIZEOF_HEARTBEAT - 1] :
        b \in [type : {PKG_HEARTBEAT}, nodeID : {1}, relayStatus : {2},
               errorFlags : {0}, seqNum : {9}, len : {0}] }

\* Packets of the types the gateway sends rather than receives, and of a
\* type byte the protocol does not define.
ForeignPackets ==
    [type : {PKG_WELCOME, PKG_CMD, PKG_CONFIG, 0, 255}, len : {SIZEOF_DATA}]

\* Frames of every kind reaching a gateway that is scanning and pairing:
\* whole packets of the handled types, packets cut short, and foreign ones.
FrameNext ==
    \/ \E pkt \in { p \in AckPackets : p.ackType = PKG_WELCOME /\ p.status = ERR_NONE } :
         Receive(pkt)
    \/ \E pkt \in { h \in HelloPackets : h.macAddr = MacOf(2) } : Receive(pkt)
    \/ \E pkt \in { d \in DataPackets \cup HeartbeatPackets : d.nodeID = 1 } : Receive(pkt)
    \/ \E pkt \in ShortPackets \cup ForeignPackets : Receive(pkt)
    \/ startScan(LORA_SCAN_DURATION)
    \/ startPairing(MacOf(1), AT_OK)
    \/ UpdateBegin
    \/ RxDispatch(TRUE, TRUE)
    \/ UpdateFinish

FrameSpec == Init /\ [][FrameNext]_vars

\* Notifications that may pile up on the serial link between two update()
\* calls when several nodes transmit in quick succession.
MaxBurst == 2

\* What arrives in a burst: Hellos of two nodes, the Ack of a Welcome and a
\* Data report.
BurstPackets ==
    { h \in HelloPackets : h.macAddr \in {MacOf(1), MacOf(2)} }
    \cup { a \in AckPackets : a.ackType = PKG_WELCOME /\ a.status = ERR_NONE }
    \cup { d \in DataPackets : d.nodeID = 1 }

\* Bursts of notifications at a gateway that scans and pairs, seen at the
\* start and at the pairing deadline.
BurstNext ==
    \/ Tick(LORA_PAIRING_TIMEOUT)
    \/ \E pkt \in BurstPackets : Arrive(pkt, MaxBurst)
    \/ startScan(LORA_PAIRING_TIMEOUT)
    \/ startPairing(MacOf(1), AT_OK)
    \/ UpdateBegin
    \/ RxDispatch(TRUE, TRUE)
    \/ UpdateFinish

BurstSpec == Init /\ [][BurstNext]_vars

\* The hardware addresses put through the conversions: every byte value at
\* every position of an address, and the addresses made of 00 and FF.
RoundTripMACs ==
    { [MacOf(1) EXCEPT ![i] = b] : i \in 1..MAC_ADDR_LEN, b \in 0..255 }
    \cup [1..MAC_ADDR_LEN -> {0, 255}]

\* A caller formats an address (the device lists of the web API, the MQTT
\* messages, saveNodes): out.arg is the address, out.ret the String.
FormatMAC(mac) ==
    /\ pc = "idle"
    /\ out' = Out("macToString", mac, macToString(mac), <<>>, <<>>, <<>>)
    /\ UNCHANGED <<lastID, nodeFw, now, updVars, rxQueue, scanVars, pairVars,
                   registeredNodes, lastNodeCheck, nodesFile>>

\* The String just produced is parsed back (loadNodes reading what
\* saveNodes wrote, the pairing request of the web API echoing a listed
\* address): out.arg is the address and its String, out.ret what
\* stringToMAC returned and stored.
ParseFormatted ==
    /\ pc = "idle"
    /\ out.op = "macToString"
    /\ out' = Out("stringToMAC", <<out.arg, out.ret>>, stringToMAC(out.ret),
                  <<>>, <<>>, <<>>)
    /\ UNCHANGED <<lastID, nodeFw, now, updVars, rxQueue, scanVars, pairVars,
                   registeredNodes, lastNodeCheck, nodesFile>>

RoundTripNext ==
    \/ \E mac \in RoundTripMACs : FormatMAC(mac)
    \/ ParseFormatted

RoundTripSpec == Init /\ [][RoundTripNext]_vars

\* Pairing over the radio: the operator pairs the Nodes in range, each
\* Welcome reaches any of them or none, a Node's Ack reaches the Gateway or
\* is lost, Nodes are power-cycled, and the clock reaches the deadline of a
\* session begun at the start.
LinkNext ==
    \/ Tick(LORA_PAIRING_TIMEOUT)
    \/ \E n \in NodeIdx : startPairing(MacOf(n), AT_OK)
    \/ \E heard \in SUBSET NodeIdx : onLoRaRxDone(heard)
    \/ \E n \in NodeIdx, delivered \in BOOLEAN : NodeLoop(n, delivered)
    \/ \E n \in NodeIdx : NodeSetup(n)
    \/ UpdateBegin
    \/ RxDispatch(TRUE, TRUE)
    \/ UpdateFinish

LinkSpec == Init /\ [][LinkNext]_vars

\* The life of an installation: pairings over the lossy radio as in
\* LinkNext, and the operator removing nodes from the registry.
FleetNext ==
    \/ Tick(LORA_PAIRING_TIMEOUT)
    \/ \E n \in NodeIdx : startPairing(MacOf(n), AT_OK)
    \/ \E id \in 1..MaxNodeID : removeNode(id, TRUE)
    \/ \E heard \in SUBSET NodeIdx : onLoRaRxDone(heard)
    \/ \E n \in NodeIdx, delivered \in BOOLEAN : NodeLoop(n, delivered)
    \/ \E n \in NodeIdx : NodeSetup(n)
    \/ UpdateBegin
    \/ RxDispatch(TRUE, TRUE)
    \/ UpdateFinish

FleetSpec == Init /\ [][FleetNext]_vars

(***************************************************************************)
(* Vocabulary of the properties.                                           *)
(***************************************************************************)
ValidIndices == { i \in 1..Len(registeredNodes) : registeredNodes[i].valid }

\* The Node IDs in 1..MaxNodeID that no valid RegisteredNode uses.
FreeIDs ==
    { id \in 1..MaxNodeID :
        \A i \in ValidIndices : registeredNodes[i].nodeID /= id }

LowestOf(S) == CHOOSE x \in S : \A y \in S : x <= y

MacIsRegistered(mac) ==
    \E i \in ValidIndices : registeredNodes[i].macAddr = mac

\* Everything but `out`, the pairing session and the serial queue.
restVars == <<now, updVars, scanVars, registeredNodes, lastNodeCheck, nodesFile>>

(***************************************************************************)
(* C1: after any sequence of startPairing, Welcome-Ack, pairing timeout,   *)
(* cancelPairing and removeNode, no two valid RegisteredNodes share a Node *)
(* ID and no two share a MAC address.                                      *)
(***************************************************************************)
C1_UniqueIDAndMAC ==
    \A i, j \in ValidIndices :
        i /= j => /\ registeredNodes[i].nodeID /= registeredNodes[j].nodeID
                  /\ registeredNodes[i].macAddr /= registeredNodes[j].macAddr

\* Two valid nodes, the older holding ID 2: ID 1 was removed and paired again.
C1_Witness ==
    /\ Len(registeredNodes) = 2
    /\ registeredNodes[1].valid /\ registeredNodes[2].valid
    /\ registeredNodes[1].nodeID = 2
    /\ registeredNodes[2].nodeID = 1

(***************************************************************************)
(* C2: pairing single-flight.  startPairing, for any MAC, called while a   *)
(* session is WaitingAck returns failure, transmits no Welcome and leaves  *)
(* pairing state, target MAC, assigned Node ID and start time unchanged.   *)
(***************************************************************************)
C2_SingleFlight ==
    [][ (out'.op = "startPairing" /\ pairingState = PAIR_WAITING_ACK)
        => /\ out'.ret = FALSE
           /\ out'.tx = <<>>
           /\ pairingState' = pairingState
           /\ pairingMAC' = pairingMAC
           /\ pairingNodeID' = pairingNodeID
           /\ pairingStartTime' = pairingStartTime ]_vars

\* A call for another, unregistered MAC was refused while a session waits
\* and an ID is free: only the pending session can have refused it.
C2_Witness ==
    /\ out.op = "startPairing"
    /\ out.ret = FALSE
    /\ out.tx = <<>>
    /\ pairingState = PAIR_WAITING_ACK
    /\ out.arg /= pairingMAC
    /\ ~MacIsRegistered(out.arg)
    /\ FreeIDs /= {}

(***************************************************************************)
(* C3 as stated: startPairing(mac) is rejected, returning failure with no  *)
(* state change and no Welcome transmitted, whenever a session is in       *)
(* progress, or the MAC belongs to a valid RegisteredNode, or no Node ID   *)
(* is free.                                                                *)
(***************************************************************************)
C3_RejectedNoStateChange ==
    [][ ( /\ out'.op = "startPairing"
          /\ \/ pairingState /= PAIR_IDLE
             \/ MacIsRegistered(out'.arg)
             \/ FreeIDs = {} )
        => /\ out'.ret = FALSE
           /\ out'.tx = <<>>
           /\ UNCHANGED <<pairVars, rxQueue, restVars>> ]_vars

(***************************************************************************)
(* C3 amended: in those three cases startPairing returns failure and       *)
(* transmits no Welcome; it changes nothing, except that when it is        *)
(* refused only for want of a free ID (idle, MAC not registered) the       *)
(* stored assigned Node ID becomes 0.                                      *)
(***************************************************************************)
C3_RejectedAmended ==
    [][ ( /\ out'.op = "startPairing"
          /\ \/ pairingState /= PAIR_IDLE
             \/ MacIsRegistered(out'.arg)
             \/ FreeIDs = {} )
        => /\ out'.ret = FALSE
           /\ out'.tx = <<>>
           /\ UNCHANGED <<pairingState, pairingMAC, pairingStartTime, rxQueue, restVars>>
           /\ pairingNodeID' =
                IF pairingState /= PAIR_IDLE \/ MacIsRegistered(out'.arg)
                  THEN pairingNodeID ELSE 0 ]_vars

\* A call refused for want of a free ID alone.
C3_Witness ==
    /\ out.op = "startPairing"
    /\ out.ret = FALSE
    /\ pairingState = PAIR_IDLE
    /\ ~MacIsRegistered(out.arg)
    /\ FreeIDs = {}
    /\ Len(registeredNodes) = MaxNodeID

(***************************************************************************)
(* C4: startPairing returns true exactly when a pairing session was        *)
(* started; whenever it returns false, also when the modem does not        *)
(* acknowledge the Welcome, no session is left in WaitingAck.              *)
(***************************************************************************)
C4_TrueIffSessionStarted ==
    [][ out'.op = "startPairing"
        => ( out'.ret = TRUE
             <=> (pairingState = PAIR_IDLE /\ pairingState' = PAIR_WAITING_ACK) ) ]_vars

(***************************************************************************)
(* C5: an accepted startPairing(mac) (idle, MAC not registered, an ID      *)
(* free) allocates the lowest free Node ID, stores the target MAC, the ID  *)
(* and the start time, moves to WaitingAck and transmits one Welcome whose *)
(* targetMac is mac and whose assignedID is the allocated ID.              *)
(***************************************************************************)
C5_AcceptedStartsSession ==
    [][ ( /\ out'.op = "startPairing"
          /\ pairingState = PAIR_IDLE
          /\ ~MacIsRegistered(out'.arg)
          /\ FreeIDs /= {} )
        => /\ pairingNodeID' = LowestOf(FreeIDs)
           /\ pairingMAC' = out'.arg
           /\ pairingStartTime' = now
           /\ pairingState' = PAIR_WAITING_ACK
           /\ Len(out'.tx) = 1
           /\ out'.tx[1].pkt.type = PKG_WELCOME
           /\ out'.tx[1].pkt.targetMac = out'.arg
           /\ out'.tx[1].pkt.assignedID = LowestOf(FreeIDs) ]_vars

\* A session just armed with ID 2 (ID 1 being taken), later than boot.
C5_Witness ==
    /\ out.op = "startPairing"
    /\ pairingState = PAIR_WAITING_ACK
    /\ Len(out.tx) = 1
    /\ out.tx[1].pkt.assignedID = 2
    /\ pairingNodeID = 2
    /\ pairingStartTime = now
    /\ now > 0

\* The Ack at the head of the serial queue answers a Welcome.
HeadIsWelcomeAck ==
    /\ rxQueue /= <<>>
    /\ Head(rxQueue).type = PKG_ACK
    /\ Head(rxQueue).ackType = PKG_WELCOME

\* /nodes.json holds exactly (id, MAC string, type, name) of the nodes of
\* `nodes`, in order.
FileMirrors(file, nodes) ==
    /\ file.exists
    /\ Len(file.nodes) = Len(nodes)
    /\ \A i \in 1..Len(nodes) :
         /\ nodes[i].valid
         /\ file.nodes[i].id = nodes[i].nodeID
         /\ file.nodes[i].mac = macToString(nodes[i].macAddr)
         /\ file.nodes[i].type = nodes[i].deviceType
         /\ file.nodes[i].name = nodes[i].name

(***************************************************************************)
(* C6: an Ack with ackType Welcome and status OK handled while WaitingAck  *)
(* appends exactly one RegisteredNode carrying the session's Node ID and   *)
(* target MAC (online, lastSeen = now), persists the registry through      *)
(* saveNodes, fires the pairing callback exactly once with (assignedID,    *)
(* true) and leaves the pairing state Idle.                                *)
(***************************************************************************)
C6_WelcomeAckOkRegisters ==
    [][ ( /\ out'.op = "handleAck"
          /\ HeadIsWelcomeAck
          /\ Head(rxQueue).status = ERR_NONE
          /\ pairingState = PAIR_WAITING_ACK )
        => /\ Len(registeredNodes') = Len(registeredNodes) + 1
           /\ SubSeq(registeredNodes', 1, Len(registeredNodes)) = registeredNodes
           /\ LET n == registeredNodes'[Len(registeredNodes')] IN
                /\ n.nodeID = pairingNodeID
                /\ n.macAddr = pairingMAC
                /\ n.online /\ n.valid
                /\ n.lastSeen = now
           /\ out'.save /= <<>>
           /\ (\E k \in 1..Len(out'.save) : out'.save[k])
                => FileMirrors(nodesFile', registeredNodes')
           /\ out'.cb = << PairingCb(pairingNodeID, TRUE) >>
           /\ pairingState' = PAIR_IDLE ]_vars

\* A second node has just been registered, later than its session began.
C6_Witness ==
    /\ out.op = "handleAck"
    /\ out.cb = << PairingCb(pairingNodeID, TRUE) >>
    /\ Len(registeredNodes) = 2
    /\ registeredNodes[2].nodeID = pairingNodeID
    /\ registeredNodes[2].lastSeen = now
    /\ now > pairingStartTime
    /\ pairingState = PAIR_IDLE
    /\ FileMirrors(nodesFile, registeredNodes)

(***************************************************************************)
(* C7: an Ack with ackType Welcome and a non-OK status handled while       *)
(* WaitingAck registers no node, leaves the registry and the persisted     *)
(* file unchanged, fires the pairing callback exactly once with            *)
(* success = false and collapses the session to Idle.                      *)
(***************************************************************************)
C7_WelcomeAckErrorFails ==
    [][ ( /\ out'.op = "handleAck"
          /\ HeadIsWelcomeAck
          /\ Head(rxQueue).status /= ERR_NONE
          /\ pairingState = PAIR_WAITING_ACK )
        => /\ registeredNodes' = registeredNodes
           /\ nodesFile' = nodesFile
           /\ out'.save = <<>>
           /\ out'.cb = << PairingCb(pairingNodeID, FALSE) >>
           /\ pairingState' = PAIR_IDLE ]_vars

\* A failed pairing has just been reported with a node already on file.
C7_Witness ==
    /\ out.op = "handleAck"
    /\ out.cb = << PairingCb(pairingNodeID, FALSE) >>
    /\ pairingState = PAIR_IDLE
    /\ registeredNodes /= <<>>
    /\ FileMirrors(nodesFile, registeredNodes)

\* The latest instant of the model's clock.
Horizon == CHOOSE t \in Instants : \A u \in Instants : u <= t

(***************************************************************************)
(* C8: pairing timeout.  At an update tick (its `now` read at entry) that  *)
(* finds the session WaitingAck, the session times out exactly when        *)
(* now - start >= 10 s: the pairing callback fires once with               *)
(* success = false, no node is registered and the state is Idle; before    *)
(* the deadline the tick leaves the session waiting and calls nothing.     *)
(* Hence, with update ticks repeating and the clock advancing, every       *)
(* WaitingAck session whose deadline lies within the clock's horizon       *)
(* returns to Idle.                                                        *)
(***************************************************************************)
C8_PairingTimeout ==
    /\ [][ (out'.op = "updateFinish" /\ pairingState = PAIR_WAITING_ACK)
           => IF updNow - pairingStartTime >= LORA_PAIRING_TIMEOUT
                THEN /\ out'.cb = << PairingCb(pairingNodeID, FALSE) >>
                     /\ pairingState' = PAIR_IDLE
                     /\ Len(registeredNodes') = Len(registeredNodes)
                     /\ nodesFile' = nodesFile
                ELSE /\ out'.cb = <<>>
                     /\ pairingState' = PAIR_WAITING_ACK ]_vars
    /\ ( ( /\ pairingState = PAIR_WAITING_ACK
           /\ pairingStartTime + LORA_PAIRING_TIMEOUT <= Horizon )
         ~> pairingState = PAIR_IDLE )

\* The timeout has just fired at exactly the deadline.
C8_Witness ==
    /\ out.op = "updateFinish"
    /\ out.cb = << PairingCb(pairingNodeID, FALSE) >>
    /\ pairingState = PAIR_IDLE
    /\ now - pairingStartTime = LORA_PAIRING_TIMEOUT

(***************************************************************************)
(* C9: cancelPairing, in any pairing state, resets the session to Idle,    *)
(* clears the stored target MAC and assigned ID, fires no pairing callback *)
(* and leaves the registry and the discovered list unchanged.              *)
(***************************************************************************)
C9_CancelResets ==
    [][ out'.op = "cancelPairing"
        => /\ pairingState' = PAIR_IDLE
           /\ pairingMAC' = [i \in 1..MAC_ADDR_LEN |-> 0]
           /\ pairingNodeID' = 0
           /\ out'.cb = <<>>
           /\ registeredNodes' = registeredNodes
           /\ discoveredNodes' = discoveredNodes ]_vars

\* A waiting session has just been cancelled, with a node on the registry
\* and a node on the discovered list.
C9_Witness ==
    /\ out.op = "cancelPairing"
    /\ out.arg = PAIR_WAITING_ACK
    /\ pairingState = PAIR_IDLE
    /\ registeredNodes /= <<>>
    /\ discoveredNodes /= <<>>

(***************************************************************************)
(* C10: ID allocation returns the first ID of 1..MaxNodeID (1..254 in the  *)
(* firmware) that no valid RegisteredNode uses, and the sentinel 0 when    *)
(* all are used; the reserved ID 0 and the broadcast ID are never          *)
(* allocated.  (That a removed ID can be assigned again is C10_Witness.)   *)
(***************************************************************************)
C10_Allocation ==
    /\ _getNextFreeID = (IF FreeIDs = {} THEN 0 ELSE LowestOf(FreeIDs))
    /\ \A i \in ValidIndices : registeredNodes[i].nodeID \in 1..MaxNodeID
    /\ pairingState = PAIR_WAITING_ACK => pairingNodeID \in 1..MaxNodeID
    /\ \A k \in 1..Len(out.tx) :
         out.tx[k].pkt.type = PKG_WELCOME
           => out.tx[k].pkt.assignedID \in 1..MaxNodeID

\* ID 1 has just been assigned while the only node on the registry holds
\* ID 2: the node that held ID 1 was removed, and 1 is allocated again.
C10_Witness ==
    /\ out.op = "startPairing"
    /\ pairingState = PAIR_WAITING_ACK
    /\ pairingNodeID = 1
    /\ Len(registeredNodes) = 1
    /\ registeredNodes[1].nodeID = 2

\* The Hello at the head of the serial queue.
HeadIsHello == rxQueue /= <<>> /\ Head(rxQueue).type = PKG_HELLO

\* The discovered list holds an entry with this MAC.
InDiscovered(mac) ==
    \E i \in 1..Len(discoveredNodes) : discoveredNodes[i].macAddr = mac

(***************************************************************************)
(* C11: discovery gating.  Handling a Hello whose MAC belongs to a valid   *)
(* RegisteredNode adds nothing to the discovered list and invokes no       *)
(* discovery callback, whether or not a scan is active.                    *)
(***************************************************************************)
C11_RegisteredHelloNotDiscovered ==
    [][ ( /\ out'.op = "handleHello"
          /\ HeadIsHello
          /\ MacIsRegistered(Head(rxQueue).macAddr) )
        => /\ discoveredNodes' = discoveredNodes
           /\ out'.cb = <<>> ]_vars

\* During a scan, a Hello from a registered node that is not on the
\* discovered list has just been turned away.
C11_Witness ==
    /\ out.op = "handleHello"
    /\ scanMode
    /\ MacIsRegistered(out.arg)
    /\ ~InDiscovered(out.arg)
    /\ out.cb = <<>>

(***************************************************************************)
(* C12: a Hello handled while no scan is active is ignored entirely: the   *)
(* discovered list, the registry, the pairing session and the scan state   *)
(* are unchanged and the discovery callback is not invoked.                *)
(***************************************************************************)
C12_HelloOutsideScanIgnored ==
    [][ ( /\ out'.op = "handleHello"
          /\ ~scanMode )
        => /\ UNCHANGED <<discoveredNodes, registeredNodes, pairVars, scanVars,
                          nodesFile>>
           /\ out'.cb = <<>> ]_vars

\* With no scan active and a pairing in flight, a Hello from a node that is
\* neither registered nor on the discovered list has just been ignored.
C12_Witness ==
    /\ out.op = "handleHello"
    /\ ~scanMode
    /\ ~MacIsRegistered(out.arg)
    /\ ~InDiscovered(out.arg)
    /\ pairingState = PAIR_WAITING_ACK
    /\ out.cb = <<>>

(***************************************************************************)
(* C13: during a scan, a Hello whose MAC is neither on the discovered list *)
(* nor registered, arriving while the list holds fewer than                *)
(* MAX_DISCOVERED_NODES entries, appends exactly one DiscoveredNode with   *)
(* that MAC, deviceType and fwVersion and invokes the discovery callback   *)
(* exactly once, with that entry.                                          *)
(***************************************************************************)
C13_NewHelloDiscovered ==
    [][ ( /\ out'.op = "handleHello"
          /\ HeadIsHello
          /\ scanMode
          /\ ~InDiscovered(Head(rxQueue).macAddr)
          /\ ~MacIsRegistered(Head(rxQueue).macAddr)
          /\ Len(discoveredNodes) < MAX_DISCOVERED_NODES )
        => /\ Len(discoveredNodes') = Len(discoveredNodes) + 1
           /\ SubSeq(discoveredNodes', 1, Len(discoveredNodes)) = discoveredNodes
           /\ LET n == discoveredNodes'[Len(discoveredNodes')] IN
                /\ n.macAddr = Head(rxQueue).macAddr
                /\ n.deviceType = Head(rxQueue).deviceType
                /\ n.fwVersion = Head(rxQueue).fwVersion
                /\ out'.cb = << [cb |-> "discovered", node |-> n] >> ]_vars

\* A second node has just been discovered.
C13_Witness ==
    /\ out.op = "handleHello"
    /\ scanMode
    /\ Len(discoveredNodes) = 2
    /\ discoveredNodes[2].macAddr = out.arg
    /\ discoveredNodes[1].macAddr /= out.arg
    /\ Len(out.cb) = 1

(***************************************************************************)
(* C14: the discovered list never holds two entries with the same MAC: a   *)
(* Hello whose MAC is already on the list adds nothing and invokes no      *)
(* callback, however often the node announces itself again.                *)
(***************************************************************************)
C14_NoDuplicateDiscovered ==
    /\ [](\A i, j \in 1..Len(discoveredNodes) :
            discoveredNodes[i].macAddr = discoveredNodes[j].macAddr => i = j)
    /\ [][ ( /\ out'.op = "handleHello"
             /\ HeadIsHello
             /\ InDiscovered(Head(rxQueue).macAddr) )
           => /\ discoveredNodes' = discoveredNodes
              /\ out'.cb = <<>> ]_vars

\* During a scan, a discovered and still unregistered node has just
\* announced itself again and been ignored.
C14_Witness ==
    /\ out.op = "handleHello"
    /\ scanMode
    /\ InDiscovered(out.arg)
    /\ ~MacIsRegistered(out.arg)
    /\ out.cb = <<>>

(***************************************************************************)
(* C15: the discovered list never holds more than MAX_DISCOVERED_NODES     *)
(* (16) entries; once it holds 16, a further Hello, acceptable or not, is  *)
(* dropped without evicting or altering any entry and without invoking the *)
(* discovery callback.                                                     *)
(***************************************************************************)
C15_DiscoveredListBounded ==
    /\ [](Len(discoveredNodes) <= MAX_DISCOVERED_NODES)
    /\ [][ ( /\ out'.op = "handleHello"
             /\ Len(discoveredNodes) = MAX_DISCOVERED_NODES )
           => /\ discoveredNodes' = discoveredNodes
              /\ out'.cb = <<>> ]_vars

\* During a scan whose list is full, a Hello from a node that is not on
\* the list has just been dropped.
C15_Witness ==
    /\ out.op = "handleHello"
    /\ scanMode
    /\ Len(discoveredNodes) = MAX_DISCOVERED_NODES
    /\ ~InDiscovered(out.arg)
    /\ ~MacIsRegistered(out.arg)
    /\ out.cb = <<>>

(***************************************************************************)
(* C16: startScan(duration), in any state and also during an active scan,  *)
(* empties the discovered list and enters Scanning with the scan restarted *)
(* at now for the given duration (deadline now + duration); the registry   *)
(* and the pairing session are unchanged.                                  *)
(***************************************************************************)
C16_StartScanRestarts ==
    [][ out'.op = "startScan"
        => /\ discoveredNodes' = <<>>
           /\ scanMode'
           /\ scanStartTime' = now
           /\ scanDuration' = out'.arg[1]
           /\ UNCHANGED <<registeredNodes, pairVars, nodesFile>> ]_vars

\* A scan has just been restarted, later than it began, emptying the list
\* while a pairing is in flight.
C16_Witness ==
    /\ out.op = "startScan"
    /\ out.arg[2]
    /\ scanStartTime = now
    /\ now > 0
    /\ discoveredNodes = <<>>
    /\ pairingState = PAIR_WAITING_ACK

(***************************************************************************)
(* C17: an active scan ends at an update tick exactly when, by the tick's  *)
(* reading of the clock, the scan duration has elapsed (never before), and *)
(* at once on stopScan; nothing else ends it.  Hence, with update ticks    *)
(* repeating and the clock advancing, every scan whose deadline lies       *)
(* within the clock's horizon becomes Inactive unless a new startScan      *)
(* intervenes.                                                             *)
(***************************************************************************)
C17_ScanEnds ==
    /\ [][ (out'.op = "updateFinish" /\ scanMode)
           => (scanMode' <=> updNow - scanStartTime < scanDuration) ]_vars
    /\ [][ out'.op = "stopScan" => ~scanMode' ]_vars
    /\ [][ (scanMode /\ ~scanMode') => out'.op \in {"updateFinish", "stopScan"} ]_vars
    /\ ( ( /\ scanMode
           /\ scanStartTime + scanDuration <= Horizon )
         ~> (~scanMode \/ out.op = "startScan") )

\* An update tick at exactly the deadline has just completed the scan.
C17_Witness ==
    /\ out.op = "updateFinish"
    /\ out.arg.scanCompleted
    /\ ~scanMode
    /\ now - scanStartTime = scanDuration
    /\ discoveredNodes /= <<>>

\* The valid online nodes whose last packet is more than the offline
\* threshold old.
OutOfDate ==
    { i \in 1..Len(registeredNodes) :
        /\ registeredNodes[i].valid
        /\ registeredNodes[i].online
        /\ now - registeredNodes[i].lastSeen > NODE_OFFLINE_THRESHOLD }

\* The update tick at hand runs the periodic sweep.
SweepDue == updNow - lastNodeCheck >= NODE_CHECK_INTERVAL

\* Node i is the same but for its online flag.
SameButOnline(i) ==
    [registeredNodes'[i] EXCEPT !.online = registeredNodes[i].online]
      = registeredNodes[i]

(***************************************************************************)
(* C18: the periodic sweep marks an online registered node offline exactly *)
(* when now - lastSeen exceeds 120 s at sweep time: a node last heard      *)
(* 120 s ago or less stays online, a node silent for longer is marked      *)
(* offline by the sweep, nothing else about a node changes, and            *)
(* getOnlineNodeCount() drops by the number of nodes so marked.            *)
(***************************************************************************)
C18_SweepMarksOffline ==
    [][ (out'.op = "updateFinish" /\ SweepDue)
        => /\ Len(registeredNodes') = Len(registeredNodes)
           /\ \A i \in 1..Len(registeredNodes) :
                /\ SameButOnline(i)
                /\ registeredNodes'[i].online
                     <=> (registeredNodes[i].online /\ i \notin OutOfDate)
           /\ getOnlineNodeCount(registeredNodes')
                = getOnlineNodeCount(registeredNodes) - Cardinality(OutOfDate) ]_vars

\* A sweep has just marked exactly one node offline, silent for one
\* millisecond more than the threshold, and left online a node heard
\* exactly the threshold ago.
C18_Witness ==
    /\ out.op = "updateFinish"
    /\ out.arg.swept
    /\ Cardinality(out.arg.wentOffline) = 1
    /\ \E i, j \in 1..Len(registeredNodes) :
         /\ registeredNodes[i].nodeID \in out.arg.wentOffline
         /\ ~registeredNodes[i].online
         /\ now - registeredNodes[i].lastSeen = NODE_OFFLINE_THRESHOLD + 1
         /\ registeredNodes[j].online
         /\ now - registeredNodes[j].lastSeen = NODE_OFFLINE_THRESHOLD
    /\ getOnlineNodeCount(registeredNodes) = 1

(***************************************************************************)
(* C19: offline sweep idempotence.  A sweep never turns an offline node    *)
(* online, and sweeping a second time at the same instant changes nothing  *)
(* the first sweep did not.                                                *)
(***************************************************************************)
C19_SweepIdempotent ==
    /\ [](_updateNodeOnlineStatus(_updateNodeOnlineStatus(registeredNodes))
            = _updateNodeOnlineStatus(registeredNodes))
    /\ [][ out'.op = "updateFinish"
           => /\ Len(registeredNodes') = Len(registeredNodes)
              /\ \A i \in 1..Len(registeredNodes) :
                   ~registeredNodes[i].online => ~registeredNodes'[i].online ]_vars

\* A sweep has just run over a node that was already offline and out of
\* date, and marked nothing.
C19_Witness ==
    /\ out.op = "updateFinish"
    /\ out.arg.swept
    /\ out.arg.wentOffline = {}
    /\ \E i \in 1..Len(registeredNodes) :
         /\ registeredNodes[i].valid
         /\ ~registeredNodes[i].online
         /\ now - registeredNodes[i].lastSeen > NODE_OFFLINE_THRESHOLD

\* The Data or Heartbeat at the head of the serial queue.
HeadIsReport ==
    /\ rxQueue /= <<>>
    /\ Head(rxQueue).type \in {PKG_DATA, PKG_HEARTBEAT}

\* The valid nodes with this ID.
ValidWithID(nodeID) ==
    { i \in ValidIndices : registeredNodes[i].nodeID = nodeID }

(***************************************************************************)
(* C20: ingesting a Data or Heartbeat whose nodeID matches a valid         *)
(* RegisteredNode sets that node's lastSeen to now and online to true, and *)
(* touches no other node; one whose nodeID matches no valid RegisteredNode *)
(* changes no registry entry and fires no node-data callback; and a node   *)
(* goes from offline to online in no other way.                            *)
(***************************************************************************)
C20_ReportRefreshesNode ==
    /\ [][ (out'.op \in {"handleData", "handleHeartbeat"} /\ HeadIsReport)
           => LET hit == ValidWithID(Head(rxQueue).nodeID) IN
                IF hit = {}
                  THEN /\ registeredNodes' = registeredNodes
                       /\ out'.cb = <<>>
                  ELSE /\ Len(registeredNodes') = Len(registeredNodes)
                       /\ \A i \in 1..Len(registeredNodes) :
                            IF i \in hit
                              THEN /\ registeredNodes'[i].lastSeen = now
                                   /\ registeredNodes'[i].online
                                   /\ registeredNodes'[i].valid
                                   /\ registeredNodes'[i].nodeID = registeredNodes[i].nodeID
                                   /\ registeredNodes'[i].macAddr = registeredNodes[i].macAddr
                              ELSE registeredNodes'[i] = registeredNodes[i] ]_vars
    /\ [][ \A i \in 1..Len(registeredNodes) :
             ( /\ i <= Len(registeredNodes')
               /\ registeredNodes'[i].nodeID = registeredNodes[i].nodeID
               /\ ~registeredNodes[i].online
               /\ registeredNodes'[i].online )
             => /\ out'.op \in {"handleData", "handleHeartbeat"}
                /\ HeadIsReport
                /\ Head(rxQueue).nodeID = registeredNodes[i].nodeID ]_vars

\* A Data packet has just brought an offline node back online.
C20_Witness ==
    /\ out.op = "handleData"
    /\ out.ret
    /\ ~out.arg[2]
    /\ \E i \in ValidIndices :
         /\ registeredNodes[i].nodeID = out.arg[1]
         /\ registeredNodes[i].online
         /\ registeredNodes[i].lastSeen = now
         /\ now > NODE_OFFLINE_THRESHOLD

(***************************************************************************)
(* C21: removeNode(k) on a registry holding a node with ID k returns true, *)
(* leaves getNodeByID(k) not-found, removes exactly that one node (every   *)
(* other entry unchanged and in order) and rewrites /nodes.json without    *)
(* node k; with no node of ID k it returns false and changes neither the   *)
(* registry nor the file.                                                  *)
(***************************************************************************)
C21_RemoveNode ==
    [][ out'.op = "removeNode"
        => LET k == out'.arg
               at == { i \in 1..Len(registeredNodes) : registeredNodes[i].nodeID = k }
           IN IF at /= {}
                THEN /\ out'.ret = TRUE
                     \* getNodeByID(k) finds nothing afterwards
                     /\ \A j \in 1..Len(registeredNodes') :
                          ~(registeredNodes'[j].valid /\ registeredNodes'[j].nodeID = k)
                     /\ \E i \in at :
                          registeredNodes' =
                            [ j \in 1..(Len(registeredNodes) - 1) |->
                                IF j < i THEN registeredNodes[j]
                                         ELSE registeredNodes[j + 1] ]
                     /\ FileMirrors(nodesFile', registeredNodes')
                     /\ \A j \in 1..Len(nodesFile'.nodes) : nodesFile'.nodes[j].id /= k
                ELSE /\ out'.ret = FALSE
                     /\ UNCHANGED <<registeredNodes, nodesFile>> ]_vars

\* Node 1 of two has just been removed: node 2 is what the registry and
\* the file still hold.
C21_Witness ==
    /\ out.op = "removeNode"
    /\ out.arg = 1
    /\ out.ret
    /\ Len(registeredNodes) = 1
    /\ registeredNodes[1].nodeID = 2
    /\ FileMirrors(nodesFile, registeredNodes)
    /\ getNodeByID(1) = 0

\* The last step was a call of loadNodes: begin()'s, on the registry the
\* constructor left empty, or setup()'s, on the registry as it stands.
LoadCalled == out'.op \in {"begin", "loadNodes"}
RegistryOnEntry == IF out'.op = "begin" THEN <<>> ELSE registeredNodes
LoadOfUsableFile == out'.arg[1] /\ out'.arg[2] /\ out'.arg[3]

(***************************************************************************)
(* C22: loadNodes on a file that exists, opens and parses returns true and *)
(* replaces the registry wholesale with exactly the file's entries, in     *)
(* order: each carries the entry's ID, MAC, type and name, is valid, is    *)
(* offline with lastSeen = 0 and has relayStatus, RSSI, SNR and uptime     *)
(* zero, whatever the registry held before and whatever state the nodes    *)
(* were in when saved.                                                     *)
(***************************************************************************)
C22_LoadReplacesRegistry ==
    [][ (LoadCalled /\ LoadOfUsableFile)
        => /\ out'.ret = TRUE
           /\ Len(registeredNodes') = Len(nodesFile.nodes)
           /\ \A i \in 1..Len(nodesFile.nodes) :
                LET n == registeredNodes'[i]
                    e == nodesFile.nodes[i]
                IN /\ n.nodeID = e.id
                   /\ macToString(n.macAddr) = e.mac
                   /\ n.deviceType = e.type
                   /\ n.name = e.name
                   /\ n.valid
                   /\ ~n.online
                   /\ n.lastSeen = 0
                   /\ n.relayStatus = 0 /\ n.lastRSSI = 0
                   /\ n.lastSNR = 0 /\ n.uptime = 0 ]_vars

\* setup()'s loadNodes found the two nodes begin() had loaded and left the
\* file's two nodes, offline.
C22_Witness ==
    /\ out.op = "loadNodes"
    /\ out.ret
    /\ out.arg[4] = 2
    /\ Len(registeredNodes) = 2
    /\ Len(nodesFile.nodes) = 2
    /\ \A i \in 1..2 : ~registeredNodes[i].online /\ registeredNodes[i].lastSeen = 0
    /\ registeredNodes[1].macAddr /= registeredNodes[2].macAddr

\* What /nodes.json is meant to keep of a registry: the (ID, MAC, type,
\* name) of its valid nodes.
PersistedRecords(nodes) ==
    { <<nodes[i].nodeID, nodes[i].macAddr, nodes[i].deviceType, nodes[i].name>> :
        i \in { j \in 1..Len(nodes) : nodes[j].valid } }

\* saveNodes on the registry as it stands, then loadNodes of what was
\* written, into an empty registry.
SavedThenLoaded(garbage) ==
    LoadNodesResult(<<>>, saveNodes(nodesFile, registeredNodes, TRUE),
                    TRUE, TRUE, garbage)

\* The last step registered a node or removed one, and every file write in
\* it succeeded.
RegistryChangeSaved ==
    /\ \/ out'.op = "handleAck" /\ registeredNodes' /= registeredNodes
       \/ out'.op = "removeNode" /\ out'.ret
    /\ \A k \in 1..Len(out'.save) : out'.save[k]

(***************************************************************************)
(* C23: after every successful pairing and every successful removeNode,    *)
(* the file writes succeeding, /nodes.json holds exactly the ID, MAC       *)
(* string, deviceType and name of the valid RegisteredNodes and no other   *)
(* field; and saveNodes followed by loadNodes always yields the same set   *)
(* of (ID, MAC, deviceType, name) records as the registry held.            *)
(***************************************************************************)
C23_PersistenceMirrors ==
    /\ [][ RegistryChangeSaved
           => /\ FileMirrors(nodesFile', registeredNodes')
              /\ \A i \in 1..Len(nodesFile'.nodes) :
                   DOMAIN nodesFile'.nodes[i] = {"id", "mac", "type", "name"} ]_vars
    /\ [](\A garbage \in StackGarbage :
            /\ SavedThenLoaded(garbage).ret
            /\ PersistedRecords(SavedThenLoaded(garbage).nodes)
                 = PersistedRecords(registeredNodes))

\* Node 1 has just been removed and the file rewritten with node 2 alone,
\* which is online and was seen after the restart: none of that is in the
\* file, and loading it gives node 2 back.
C23_Witness ==
    /\ out.op = "removeNode"
    /\ out.ret
    /\ out.save = <<TRUE>>
    /\ Len(registeredNodes) = 1
    /\ registeredNodes[1].macAddr = MacOf(2)
    /\ registeredNodes[1].online
    /\ registeredNodes[1].lastSeen > 0
    /\ FileMirrors(nodesFile, registeredNodes)
    /\ PersistedRecords(SavedThenLoaded(ZeroMAC).nodes) = PersistedRecords(registeredNodes)

(***************************************************************************)
(* C24: when /nodes.json is missing, cannot be opened or does not parse,   *)
(* loadNodes returns false, the registry is exactly what it was on entry   *)
(* (empty in begin(), at startup) and the program carries on: setup()      *)
(* proceeds and the main loop is reached.                                  *)
(***************************************************************************)
C24_FailedLoadKeepsRegistry ==
    [][ (LoadCalled /\ ~LoadOfUsableFile)
        => /\ out'.ret = FALSE
           /\ registeredNodes' = RegistryOnEntry
           /\ out'.op = "begin" => pc' = "setup"
           /\ out'.op = "loadNodes" => pc' = "idle" ]_vars

\* setup()'s loadNodes could not parse the file begin() had just loaded two
\* nodes from: it returned false and the two nodes are still there.
C24_Witness ==
    /\ out.op = "loadNodes"
    /\ ~out.ret
    /\ out.arg = <<TRUE, TRUE, FALSE, 2>>
    /\ Len(registeredNodes) = 2
    /\ pc = "idle"

(***************************************************************************)
(* C25: the registry never holds more than MAX_NODES (32) valid            *)
(* RegisteredNodes, and startPairing called with MAX_NODES nodes           *)
(* registered returns false and leads to no node being added.              *)
(***************************************************************************)
C25_RegistryCapped ==
    /\ [](Cardinality(ValidIndices) <= MAX_NODES)
    /\ [][ (out'.op = "startPairing" /\ Cardinality(ValidIndices) = MAX_NODES)
           => /\ out'.ret = FALSE
              /\ pairingState' = pairingState
              /\ registeredNodes' = registeredNodes ]_vars

\* Whether the modem is receiving after the AT commands cmds, having been
\* receiving or not (rx) before them.
RECURSIVE RxEnabledAfter(_, _)
RxEnabledAfter(cmds, rx) ==
    IF cmds = <<>> THEN rx
    ELSE RxEnabledAfter(Tail(cmds),
                        IF Head(cmds) = AT_PRECV_OFF THEN FALSE
                        ELSE IF Head(cmds) = AT_PRECV_CONTINUOUS THEN TRUE
                        ELSE rx)

(***************************************************************************)
(* C26: every transmit attempt that switches receive off (AT+PRECV=0) ends *)
(* with the command that switches continuous receive back on               *)
(* (AT+PRECV=65534), whether the modem answered OK, ERROR or nothing       *)
(* within the timeout; after _sendPacket has returned, for a Welcome or    *)
(* for any command, the modem is receiving.                                *)
(***************************************************************************)
C26_HalfDuplex ==
    \A k \in 1..Len(out.tx) :
      LET at == out.tx[k].at IN
        /\ out.tx[k].answer \in ModemAnswers
        /\ (\E i \in 1..Len(at) : at[i] = AT_PRECV_OFF)
             => /\ at[Len(at)] = AT_PRECV_CONTINUOUS
                /\ \A i \in 1..Len(at) :
                     at[i] = AT_PRECV_OFF => \E j \in (i + 1)..Len(at) :
                                               at[j] = AT_PRECV_CONTINUOUS
        /\ RxEnabledAfter(at, TRUE)
        /\ RxEnabledAfter(at, FALSE)

\* A relay command went unanswered by the modem: the call returned false
\* and receive was switched off, then on again.
C26_Witness ==
    /\ out.op = "sendRelayCommand"
    /\ ~out.ret
    /\ Len(out.tx) = 1
    /\ out.tx[1].answer = NO_ANSWER
    /\ out.tx[1].at[1] = AT_PRECV_OFF
    /\ RxEnabledAfter(out.tx[1].at, TRUE)

\* The step hands the notification at the head of the serial queue to
\* _handlePacket.
Dispatching ==
    /\ pc = "rx" /\ pc' = "rx"
    /\ rxQueue /= <<>>
    /\ rxQueue' = Tail(rxQueue)

\* The types _handlePacket has a handler for.
HandledTypes == {PKG_HELLO, PKG_ACK, PKG_DATA, PKG_HEARTBEAT}

\* The packet is of no handled type, or shorter than its type's struct.
ShortOrForeign(pkt) ==
    \/ pkt.type \notin HandledTypes
    \/ pkt.type \in HandledTypes /\ PacketLen(pkt) < SizeOf(pkt.type)

C28_StrayAckIgnored ==
    [][ ( /\ Dispatching
          /\ Head(rxQueue).type = PKG_ACK
          /\ \/ pairingState = PAIR_IDLE
             \/ Head(rxQueue).ackType /= PKG_WELCOME )
        => /\ out'.op = "handleAck"
           /\ out'.ret = FALSE
           /\ out'.cb = <<>>
           /\ out'.save = <<>>
           /\ UNCHANGED <<registeredNodes, nodesFile, pairVars>> ]_vars

\* An Ack was ignored although a pairing is waiting for one (it
\* acknowledged a command), with one node registered before and after.
C28_Witness ==
    /\ out.op = "handleAck"
    /\ ~out.ret
    /\ out.cb = <<>>
    /\ pairingState = PAIR_WAITING_ACK
    /\ Len(registeredNodes) = 1

(***************************************************************************)
(* C29: between operations the pairing state is always Idle or WaitingAck: *)
(* Success, Timeout and Failed exist only while the pairing callback runs  *)
(* and are gone once the Ack handling or the update tick that reached them *)
(* has returned, which leaves the state Idle.                              *)
(***************************************************************************)
C29_TerminalStatesNotRetained ==
    /\ pairingState \in {PAIR_IDLE, PAIR_WAITING_ACK}
    /\ (out.op \in {"handleAck", "updateFinish"} /\ out.cb /= <<>>)
         => pairingState = PAIR_IDLE

\* update() has just timed a pairing out: the callback was told of the
\* failure and the state is Idle again.
C29_Witness ==
    /\ out.op = "updateFinish"
    /\ out.cb = << PairingCb(pairingNodeID, FALSE) >>
    /\ pairingState = PAIR_IDLE
    /\ now - pairingStartTime >= LORA_PAIRING_TIMEOUT

\* The four command operations, the command type each sends and whether it
\* passes a parameter on.
CommandOps ==
    { [op |-> "sendRelayCommand", cmdType |-> CMD_RELAY_SET, hasParam |-> TRUE],
      [op |-> "sendRelayToggle", cmdType |-> CMD_RELAY_TOGGLE, hasParam |-> TRUE],
      [op |-> "requestNodeStatus", cmdType |-> CMD_REQUEST_STATUS, hasParam |-> FALSE],
      [op |-> "sendResetCommand", cmdType |-> CMD_RESET, hasParam |-> FALSE] }

(***************************************************************************)
(* C30: sendRelayCommand, sendRelayToggle, requestNodeStatus and           *)
(* sendResetCommand are stateless: each hands exactly one Command packet   *)
(* to the transmit path, carrying the given target ID, the operation's     *)
(* command type and the given parameter, returns the transmit result and   *)
(* leaves the registry, the discovered list, the scan state and the        *)
(* pairing session unchanged; and an Ack of a command arriving later       *)
(* changes none of these and calls nothing back.                           *)
(***************************************************************************)
C30_CommandsStateless ==
    /\ [][ \A c \in CommandOps :
             out'.op = c.op
             => /\ Len(out'.tx) = 1
                /\ out'.tx[1].pkt.type = PKG_CMD
                /\ out'.tx[1].pkt.targetID = out'.arg[1]
                /\ out'.tx[1].pkt.cmdType = c.cmdType
                /\ out'.tx[1].pkt.param1 = (IF c.hasParam THEN out'.arg[2] ELSE 0)
                /\ out'.tx[1].pkt.param2 = 0
                /\ out'.ret = out'.tx[1].ok
                /\ out'.cb = <<>> /\ out'.save = <<>>
                /\ UNCHANGED <<registeredNodes, nodesFile, scanVars, pairVars,
                               lastNodeCheck>> ]_vars
    /\ [][ ( /\ Dispatching
             /\ Head(rxQueue).type = PKG_ACK
             /\ Head(rxQueue).ackType = PKG_CMD )
           => /\ out'.cb = <<>>
              /\ UNCHANGED <<registeredNodes, nodesFile, scanVars, pairVars>> ]_vars

\* A relay bitmap was sent to node 2, which is not registered, while a scan
\* had found a node and the pairing of another was waiting for its Ack.
C30_Witness ==
    /\ out.op = "sendRelayCommand"
    /\ out.arg = <<2, 3>>
    /\ out.ret
    /\ out.tx[1].pkt.param1 = 3
    /\ scanMode
    /\ discoveredNodes /= <<>>
    /\ pairingState = PAIR_WAITING_ACK
    /\ getNodeByID(2) = 0

\* The operations _handlePacket ends in.
HandlerOps == {"handleHello", "handleAck", "handleData", "handleHeartbeat", "discard"}

\* The record o is what the handler of notification pkt leaves: the handler
\* of its type, run on its sender.
HandledAs(pkt, o) ==
    CASE ShortOrForeign(pkt) -> o.op = "discard" /\ o.arg = pkt.type
      [] pkt.type = PKG_HELLO -> o.op = "handleHello" /\ o.arg = pkt.macAddr
      [] pkt.type = PKG_ACK -> o.op = "handleAck"
      [] pkt.type = PKG_DATA -> o.op = "handleData" /\ o.arg[1] = pkt.nodeID
      [] pkt.type = PKG_HEARTBEAT -> o.op = "handleHeartbeat" /\ o.arg[1] = pkt.nodeID

\* The step runs one of the three checks that follow _processRxData in
\* update(): it ends a scan, times a pairing out, or sweeps the registry.
ChecksRun ==
    \/ pc = "rx" /\ scanMode /\ ~scanMode'
    \/ pc = "rx" /\ pairingState = PAIR_WAITING_ACK /\ pairingState' = PAIR_IDLE
         /\ registeredNodes' = registeredNodes
         /\ out'.cb = << PairingCb(pairingNodeID, FALSE) >> /\ out'.op /= "handleAck"
    \/ lastNodeCheck' /= lastNodeCheck

(***************************************************************************)
(* C31: within a single update() call every complete receive notification  *)
(* available on the serial link is dispatched to its handler, one at a     *)
(* time, strictly in arrival order, before the scan-deadline check, the    *)
(* pairing-timeout check and the offline sweep of that tick run.           *)
(* Notifications join the link at its tail; every handler run is that of   *)
(* the notification at the head, which alone leaves the link; and the      *)
(* checks run only in the step that found the link empty.                  *)
(***************************************************************************)
C31_DrainedInOrder ==
    [][ /\ (Len(rxQueue') > Len(rxQueue))
           => /\ Len(rxQueue') = Len(rxQueue) + 1
              /\ SubSeq(rxQueue', 1, Len(rxQueue)) = rxQueue
        /\ (out'.op \in HandlerOps)
           => /\ pc = "rx" /\ pc' = "rx"
              /\ rxQueue /= <<>>
              /\ HandledAs(Head(rxQueue), out')
              /\ rxQueue' = Tail(rxQueue)
        /\ (pc = "rx" /\ pc' = "idle") => rxQueue = <<>> /\ out'.op = "updateFinish"
        /\ ChecksRun => rxQueue = <<>> /\ out'.op = "updateFinish" ]_vars

\* Of a Hello and a Data report waiting together, the Hello, which arrived
\* first, has been handled and the report is next, inside one update().
C31_Witness ==
    /\ pc = "rx"
    /\ out.op = "handleHello"
    /\ out.arg = MacOf(1)
    /\ Len(rxQueue) = 1
    /\ Head(rxQueue).type = PKG_DATA

\* The digits %02X writes.
UpperHexChars == {"0","1","2","3","4","5","6","7","8","9","A","B","C","D","E","F"}

\* str is six groups of two uppercase hex digits with colons between them.
IsCanonicalMAC(str) ==
    /\ Len(str) = MAC_STRING_LEN
    /\ \A i \in 1..MAC_STRING_LEN :
         IF i % 3 = 0 THEN str[i] = ":" ELSE str[i] \in UpperHexChars

(***************************************************************************)
(* C32: MAC round trip.  For every 6-byte sequence x,                      *)
(* stringToMAC(macToString(x)) succeeds and yields x, and macToString      *)
(* produces the 17-character uppercase colon-separated form.               *)
(***************************************************************************)
C32_MacRoundTrip ==
    /\ (out.op = "macToString") => IsCanonicalMAC(out.ret)
    /\ (out.op = "stringToMAC")
       => /\ out.arg[2] = macToString(out.arg[1])
          /\ out.ret.ok
          /\ out.ret.mac = out.arg[1]

\* AA:BB:CC:11:22:0A, with a byte below 16 and digits above 9, has been
\* formatted and parsed back.
C32_Witness ==
    /\ out.op = "stringToMAC"
    /\ out.arg[1] = <<170, 187, 204, 17, 34, 10>>
    /\ out.arg[2] = <<"A","A",":","B","B",":","C","C",":","1","1",":","2","2",":","0","A">>
    /\ out.ret.ok

(***************************************************************************)
(* C33: on pairing success the new node's deviceType equals the deviceType *)
(* of the discovered-list entry whose MAC is the session's target MAC if   *)
(* such an entry exists at the moment the Ack is handled, and the default  *)
(* (2-channel relay) otherwise, in particular when the MAC was never       *)
(* discovered or a startScan issued between startPairing and the Ack has   *)
(* cleared the list.                                                       *)
(***************************************************************************)
C33_DeviceTypeBackfill ==
    [][ ( /\ out'.op = "handleAck"
          /\ HeadIsWelcomeAck
          /\ Head(rxQueue).status = ERR_NONE
          /\ pairingState = PAIR_WAITING_ACK )
        => /\ Len(registeredNodes') = Len(registeredNodes) + 1
           /\ LET n == registeredNodes'[Len(registeredNodes')] IN
                IF InDiscovered(pairingMAC)
                  THEN \A i \in 1..Len(discoveredNodes) :
                         discoveredNodes[i].macAddr = pairingMAC
                           => n.deviceType = discoveredNodes[i].deviceType
                  ELSE n.deviceType = DEV_TYPE_RELAY_2CH ]_vars

\* Two 4-channel nodes have been paired.  The first was on the discovered
\* list when its Ack came and is registered as 4-channel; the second has
\* just been registered as 2-channel, the list being empty in a scan that
\* is running.
C33_Witness ==
    /\ out.op = "handleAck"
    /\ out.cb = << PairingCb(pairingNodeID, TRUE) >>
    /\ Len(registeredNodes) = 2
    /\ registeredNodes[1].deviceType = DEV_TYPE_RELAY_4CH
    /\ registeredNodes[2].deviceType = DEV_TYPE_RELAY_2CH
    /\ scanMode
    /\ discoveredNodes = <<>>

\* The step is a pass of Node n's loop() over a Welcome in its rxBuffer.
NodeHandlesWelcome(n) ==
    /\ out'.op = "nodeLoop"
    /\ out'.arg[1] = n
    /\ nodeFw[n].rxDone
    /\ nodeFw[n].rxBuffer.type = PKG_WELCOME

(***************************************************************************)
(* C34: Node side.  A Node acts on a Welcome only if its targetMac equals  *)
(* the Node's own MAC and the Node is in Discovery state; it then adopts   *)
(* assignedID, persists it, sends Ack{nodeID = assignedID, ackType =       *)
(* Welcome, status = OK} and switches to Normal.  Any other Welcome (MAC   *)
(* mismatch, or Node already in Normal) changes no Node state and produces *)
(* no Ack, so a Node never chooses or changes its own ID: its nodeID       *)
(* changes only to the assignedID of a Welcome addressed to it.            *)
(***************************************************************************)
C34_NodeActsOnOwnWelcome ==
    [][ \A n \in NodeIdx :
          /\ NodeHandlesWelcome(n)
             => LET pkt == nodeFw[n].rxBuffer IN
                IF pkt.targetMac = MacOf(n) /\ nodeFw[n].deviceState = STATE_DISCOVERY
                  THEN /\ nodeFw'[n].nodeID = pkt.assignedID
                       /\ nodeFw'[n].nvm = [magic |-> NVM_MAGIC_VALUE,
                                            nodeID |-> pkt.assignedID]
                       /\ nodeFw'[n].deviceState = STATE_NORMAL
                       /\ out'.tx = << [type |-> PKG_ACK, nodeID |-> pkt.assignedID,
                                        ackType |-> PKG_WELCOME, status |-> ERR_NONE] >>
                  ELSE /\ nodeFw'[n].nodeID = nodeFw[n].nodeID
                       /\ nodeFw'[n].nvm = nodeFw[n].nvm
                       /\ nodeFw'[n].deviceState = nodeFw[n].deviceState
                       /\ out'.tx = <<>>
                       /\ rxQueue' = rxQueue
          /\ (nodeFw'[n].nodeID /= nodeFw[n].nodeID)
             => /\ NodeHandlesWelcome(n)
                /\ nodeFw[n].rxBuffer.targetMac = MacOf(n)
                /\ nodeFw'[n].nodeID = nodeFw[n].rxBuffer.assignedID ]_vars

\* One Welcome, addressed to Node 1, was heard by both Nodes: Node 1 has
\* adopted and saved its ID and is in Normal, and Node 2 has just passed
\* over it, still in Discovery and without an ID, sending nothing.
C34_Witness ==
    /\ out.op = "nodeLoop"
    /\ out.arg[1] = 2
    /\ out.arg[2].type = PKG_WELCOME
    /\ out.arg[2].targetMac = MacOf(1)
    /\ out.tx = <<>>
    /\ nodeFw[2].deviceState = STATE_DISCOVERY
    /\ nodeFw[2].nodeID = NODE_ID_UNASSIGNED
    /\ nodeFw[1].deviceState = STATE_NORMAL
    /\ nodeFw[1].nodeID = out.arg[2].assignedID
    /\ nodeFw[1].nvm = [magic |-> NVM_MAGIC_VALUE, nodeID |-> out.arg[2].assignedID]

\* Node n is paired as far as it knows: in Normal state, holding Node ID k.
NodeHolds(n, k) ==
    /\ nodeFw[n].deviceState = STATE_NORMAL
    /\ nodeFw[n].nodeID = k

\* The Gateway holds a valid RegisteredNode with Node ID k and address mac.
GatewayHolds(k, mac) ==
    \E i \in ValidIndices :
        /\ registeredNodes[i].nodeID = k
        /\ registeredNodes[i].macAddr = mac

(***************************************************************************)
(* C35: pairing agreement over a lossy link.  Once a pairing session has   *)
(* returned to Idle, a Node is in Normal state holding the ID k assigned   *)
(* by that session's Welcome only if the Gateway holds a valid             *)
(* RegisteredNode with ID k and that Node's MAC; loss of the Welcome or of *)
(* the Ack never leaves the Node paired while the Gateway has registered   *)
(* nothing.                                                                *)
(***************************************************************************)
C35_PairingAgreement ==
    \A n \in NodeIdx :
        ( /\ pairingState = PAIR_IDLE
          /\ pairingMAC = MacOf(n)
          /\ NodeHolds(n, pairingNodeID) )
        => GatewayHolds(pairingNodeID, MacOf(n))

\* Node n holds an assigned Node ID.
HasID(n) == nodeFw[n].nodeID /= NODE_ID_UNASSIGNED

(***************************************************************************)
(* C36: system-wide ID uniqueness.  Across any sequence of pairings, lost  *)
(* Welcomes or Acks, pairing timeouts and removeNode calls, no two Nodes   *)
(* hold the same assigned Node ID at the same time, so a Command or Data   *)
(* packet carrying ID k concerns at most one physical Node.                *)
(***************************************************************************)
C36_SystemWideUniqueIDs ==
    \A m \in NodeIdx, n \in NodeIdx :
        (m /= n /\ HasID(m) /\ HasID(n)) => nodeFw[m].nodeID /= nodeFw[n].nodeID

(***************************************************************************)
(* C37: a transmit (_sendPacket, reached from startPairing or any command  *)
(* call made between two update ticks) discards every byte still buffered  *)
(* on the modem serial link and every line read while it waits for the     *)
(* modem's reply, so a receive notification (a Welcome-Ack, Hello, Data or *)
(* Heartbeat) that arrived but had not yet been consumed by update() is    *)
(* never dispatched to its handler: the link is empty after the transmit,  *)
(* and the operation registers and discovers nothing, fires no callback    *)
(* and, unless it opens the session itself, leaves the pairing session as  *)
(* it was.                                                                 *)
(***************************************************************************)
C37_TransmitDiscardsPending ==
    [][ (out'.op \in GatewayTxOps /\ out'.tx /= <<>>)
        => /\ pc = "idle"
           /\ out'.tx[1].unread = rxQueue
           /\ rxQueue' = <<>>
           /\ out'.cb = <<>>
           /\ UNCHANGED <<registeredNodes, discoveredNodes, nodesFile>>
           /\ (out'.op /= "startPairing") => UNCHANGED pairVars ]_vars

\* A relay command was sent while the Welcome-Ack of the pending pairing
\* waited unread: the Ack is gone, nothing is registered and the session
\* is still waiting.
C37_Witness ==
    /\ out.op = "sendRelayCommand"
    /\ Len(out.tx) = 1
    /\ Len(out.tx[1].unread) = 1
    /\ out.tx[1].unread[1].type = PKG_ACK
    /\ out.tx[1].unread[1].ackType = PKG_WELCOME
    /\ out.tx[1].unread[1].status = ERR_NONE
    /\ rxQueue = <<>>
    /\ pairingState = PAIR_WAITING_ACK
    /\ registeredNodes = <<>>

(***************************************************************************)
(* C38: the nodeID field of a Welcome-Ack is not compared with the         *)
(* session.  While WaitingAck, an Ack with ackType Welcome and status OK   *)
(* completes the pending pairing whatever nodeID it carries and whichever  *)
(* Node sent it, and the registered node always receives the session's     *)
(* assigned ID and target MAC, never values taken from the Ack.            *)
(***************************************************************************)
C38_AckNodeIDNotCompared ==
    [][ ( /\ Dispatching
          /\ HeadIsWelcomeAck
          /\ Head(rxQueue).status = ERR_NONE
          /\ pairingState = PAIR_WAITING_ACK )
        => /\ out'.op = "handleAck"
           /\ out'.arg = Head(rxQueue).nodeID
           /\ out'.cb = << PairingCb(pairingNodeID, TRUE) >>
           /\ pairingState' = PAIR_IDLE
           /\ registeredNodes' =
                Append(registeredNodes,
                       [registeredNodes'[Len(registeredNodes')] EXCEPT
                          !.nodeID = pairingNodeID, !.macAddr = pairingMAC]) ]_vars

\* A session that assigned ID 2 has been completed by an Ack carrying
\* nodeID 1: the node registered has ID 2 and the session's MAC.
C38_Witness ==
    /\ out.op = "handleAck"
    /\ out.arg = 1
    /\ out.cb = << PairingCb(2, TRUE) >>
    /\ pairingNodeID = 2
    /\ Len(registeredNodes) = 2
    /\ registeredNodes[2].nodeID = 2
    /\ registeredNodes[2].macAddr = pairingMAC

\* The pairing deadline has passed at the reading of millis() this update()
\* runs on.
DeadlinePassed ==
    /\ pc = "rx"
    /\ pairingState = PAIR_WAITING_ACK
    /\ Sub32(updNow, pairingStartTime) >= LORA_PAIRING_TIMEOUT

\* A Welcome-Ack with status OK waits on the serial link.
WelcomeAckOkWaiting ==
    \E i \in 1..Len(rxQueue) :
        /\ rxQueue[i].type = PKG_ACK
        /\ PacketLen(rxQueue[i]) >= SIZEOF_ACK
        /\ rxQueue[i].ackType = PKG_WELCOME
        /\ rxQueue[i].status = ERR_NONE

\* The step is update()'s deadline check raising the pairing callback with
\* success = false.
TimeoutCallback ==
    /\ out'.op = "updateFinish"
    /\ \E k \in 1..Len(out'.cb) : out'.cb[k] = PairingCb(pairingNodeID, FALSE)

EntryRemoved ==
    \/ Len(discoveredNodes') < Len(discoveredNodes)
    \/ \E i \in 1..Len(discoveredNodes) :
         i <= Len(discoveredNodes') => discoveredNodes'[i] /= discoveredNodes[i]

\* The step ends a scan: the deadline found by update(), or stopScan.
ScanEnds == scanMode /\ ~scanMode'

\* The step completes the pairing of pairingMAC.
PairingSucceeds ==
    /\ out'.op = "handleAck"
    /\ out'.cb = << PairingCb(pairingNodeID, TRUE) >>

(***************************************************************************)
(* C40: discovered entries are removed only by startScan or                *)
(* clearDiscoveredNodes.  The end of a scan (deadline or stopScan), a      *)
(* successful pairing of the entry's MAC and removeNode all leave the      *)
(* discovered list unchanged.                                              *)
(***************************************************************************)
C40_DiscoveredRemovedOnlyByClear ==
    [][ /\ EntryRemoved => out'.op \in {"startScan", "clearDiscoveredNodes"}
        /\ ScanEnds => discoveredNodes' = discoveredNodes
        /\ PairingSucceeds => discoveredNodes' = discoveredNodes
        /\ out'.op \in {"stopScan", "removeNode"}
           => discoveredNodes' = discoveredNodes ]_vars

\* A MAC in the discovered list and in the registry at once, its pairing
\* just completed after the scan that found it was stopped.
C40_Witness ==
    /\ out.op = "handleAck"
    /\ out.cb = << PairingCb(pairingNodeID, TRUE) >>
    /\ ~scanMode
    /\ \E i \in 1..Len(discoveredNodes) : discoveredNodes[i].macAddr = pairingMAC
    /\ MacIsRegistered(pairingMAC)

=============================================================================
